---- MODULE Spec2Model ----
(***************************************************************************)
(* The resource reconcilers of terraform-provider-soft-serve (Repository,  *)
(* User, RepositoryCollaborator, ServerSettings) driving a Soft Serve      *)
(* instance through the SSH client's single-line commands.                 *)
(*                                                                         *)
(* One behaviour follows one resource instance of one kind through one     *)
(* provider run: the operator's configuration is fixed, the server may     *)
(* already hold the resource.  An action is one whole handler call         *)
(* (Configure, Create, Read, Update, Delete, ImportState): it builds the   *)
(* commands the handler issues, runs them in order against the server      *)
(* until one fails, and records the resulting Terraform state.  A command  *)
(* is the token sequence of the command line sent on the wire.             *)
(*                                                                         *)
(* Two units below the resources have behaviours of their own: the         *)
(* response parsers, applied to a response text, and the SSH client,       *)
(* constructed from a ClientConfig and then running commands, each on a    *)
(* connection of its own.                                                  *)
(***************************************************************************)
EXTENDS Integers, Sequences, FiniteSets, TLC

VARIABLES
    kind,      \* which resource type this instance is: "repo", "user", "collab", "settings"
    client,    \* r.client # nil (set by Configure)
    config,    \* the configuration the operator declared for the resource
    remote,    \* what the Soft Serve server holds for the resource
    state,     \* the Terraform state recorded for the resource
    log,       \* the commands sent by the last handler call, each with its outcome
    last,      \* the last handler call: its name, inputs, and result
    output,    \* a response text handed to one of the parsers
    parse,     \* the parser called on it and what it returned
    ssh,       \* the last call of the SSH client: NewClient or Run, and what it returned
    conns,     \* the number of command connections to the server that are open
    callers    \* the callers running an Update on one resource at the same time

resourceVars == <<kind, client, config, remote, state, log, last>>
parserVars == <<output, parse>>
sshVars == <<ssh, conns>>
callerVars == <<callers>>
vars == <<kind, client, config, remote, state, log, last, output, parse, ssh, conns, callers>>

----------------------------------------------------------------------------
(* Bounds of the model *)

NumTexts == 1   \* distinct non-empty description / project-name texts
NumKeys == 3    \* distinct public keys
MaxLines == 3   \* lines of a response text put together from arbitrary lines

TextName == <<"alpha", "beta", "gamma", "delta">>
KeyName == <<"ssh-A", "ssh-B", "ssh-C", "ssh-D", "ssh-E">>

Texts == {""} \cup {TextName[i] : i \in 1..NumTexts}
Keys == {KeyName[i] : i \in 1..NumKeys}
KeyIndex(k) == CHOOSE i \in 1..NumKeys : KeyName[i] = k

Kinds == {"repo", "user", "collab", "settings"}
AccessLevels == {"no-access", "read-only", "read-write", "admin-access"}

RepoName == "proj"
UserName == "alice"

----------------------------------------------------------------------------
(* terraform-plugin-framework attribute values: null, unknown, or known *)

StringNull == [st |-> "null", v |-> ""]
StringUnknown == [st |-> "unknown", v |-> ""]
StringValue(s) == [st |-> "known", v |-> s]
BoolNull == [st |-> "null", v |-> FALSE]
BoolUnknown == [st |-> "unknown", v |-> FALSE]
BoolValue(b) == [st |-> "known", v |-> b]
SetNull == [st |-> "null", v |-> {}]
SetValueFrom(elems) == [st |-> "known", v |-> {elems[i] : i \in DOMAIN elems}]

IsNull(x) == x.st = "null"
IsUnknown(x) == x.st = "unknown"
ValueString(x) == IF x.st = "known" THEN x.v ELSE ""
ValueBool(x) == IF x.st = "known" THEN x.v ELSE FALSE
Equal(a, b) == a.st = b.st /\ a.v = b.v

----------------------------------------------------------------------------
(* fmt verbs used to build command lines *)

FmtQ(s) == "\"" \o s \o "\""                 \* %q
FmtT(b) == IF b THEN "true" ELSE "false"     \* %t
Unquote(q) == CHOOSE s \in Texts \cup Keys : FmtQ(s) = q
ParseBool(s) == s = "true"

----------------------------------------------------------------------------
(* internal/ssh client: the command line each method sends *)

(* faulty variant: the -d and -n flags are sent whether or not a value is given *)
RepoCreate_AlwaysFlags(name, opts) ==
    <<"repo", "create", name, "-d", FmtQ(opts.Description), "-n", FmtQ(opts.ProjectName)>>
        \o (IF opts.Private THEN <<"-p">> ELSE <<>>)

RepoCreate(name, opts) ==
    <<"repo", "create", name>>
        \o (IF opts.Description # "" THEN <<"-d", FmtQ(opts.Description)>> ELSE <<>>)
        \o (IF opts.ProjectName # "" THEN <<"-n", FmtQ(opts.ProjectName)>> ELSE <<>>)
        \o (IF opts.Private THEN <<"-p">> ELSE <<>>)
RepoInfo(name) == <<"repo", "info", name>>
RepoDelete(name) == <<"repo", "delete", name>>
RepoSetDescription(name, description) == <<"repo", "description", name, FmtQ(description)>>
RepoSetPrivate(name, private) == <<"repo", "private", name, FmtT(private)>>
RepoSetHidden(name, hidden) == <<"repo", "hidden", name, FmtT(hidden)>>
RepoSetProjectName(name, projectName) == <<"repo", "project-name", name, FmtQ(projectName)>>

RECURSIVE KeyFlags(_)
KeyFlags(keys) ==
    IF keys = <<>> THEN <<>> ELSE <<"-k", FmtQ(Head(keys))>> \o KeyFlags(Tail(keys))
UserCreate(username, opts) ==
    <<"user", "create", username>>
        \o (IF opts.Admin THEN <<"-a">> ELSE <<>>)
        \o KeyFlags(opts.PublicKeys)
UserInfo(username) == <<"user", "info", username>>
UserDelete(username) == <<"user", "delete", username>>
UserSetAdmin(username, admin) == <<"user", "set-admin", username, FmtT(admin)>>
UserAddPublicKey(username, key) == <<"user", "add-pubkey", username, FmtQ(key)>>
UserRemovePublicKey(username, key) == <<"user", "remove-pubkey", username, FmtQ(key)>>

CollabAdd(repo, username, accessLevel) ==
    <<"repo", "collab", "add", repo, username>>
        \o (IF accessLevel # "" THEN <<accessLevel>> ELSE <<>>)
CollabList(repo) == <<"repo", "collab", "list", repo>>
CollabRemove(repo, username) == <<"repo", "collab", "remove", repo, username>>

SettingsGetAllowKeyless == <<"settings", "allow-keyless">>
SettingsSetAllowKeyless(allow) == <<"settings", "allow-keyless", FmtT(allow)>>
SettingsGetAnonAccess == <<"settings", "anon-access">>
SettingsSetAnonAccess(level) == <<"settings", "anon-access", level>>

(* the verb of a command line, and the two classes of command *)
Verb(cmd) ==
    IF cmd[1] = "repo" /\ cmd[2] = "collab" THEN <<cmd[1], cmd[2], cmd[3]>>
    ELSE <<cmd[1], cmd[2]>>
IsQuery(cmd) ==
    \/ Verb(cmd) \in {<<"repo", "info">>, <<"user", "info">>}
    \/ Verb(cmd) = <<"repo", "collab", "list">>
    \/ cmd[1] = "settings" /\ Len(cmd) = 2
IsMutating(cmd) == ~IsQuery(cmd)

----------------------------------------------------------------------------
(* The Soft Serve server: what it holds and how a command that it runs     *)
(* successfully changes it.                                                *)

NoRepo == [exists |-> FALSE, description |-> "", project_name |-> "",
           private |-> FALSE, hidden |-> FALSE]
NoUser == [exists |-> FALSE, admin |-> FALSE, keys |-> {}]
NoCollab == [listed |-> FALSE, level |-> ""]

RemoteRepos ==
    {NoRepo} \cup [exists : {TRUE}, description : Texts, project_name : Texts,
                   private : BOOLEAN, hidden : BOOLEAN]
RemoteUsers == {NoUser} \cup [exists : {TRUE}, admin : BOOLEAN, keys : SUBSET Keys]
RemoteCollabs == {NoCollab} \cup [listed : {TRUE}, level : AccessLevels \cup {""}]
RemoteSettings == [allow_keyless : BOOLEAN, anon_access : AccessLevels]

(* the value following a flag of a command line, or "" *)
FlagValue(cmd, flag) ==
    IF \E i \in 1..(Len(cmd) - 1) : cmd[i] = flag
    THEN Unquote(cmd[(CHOOSE i \in 1..(Len(cmd) - 1) : cmd[i] = flag) + 1])
    ELSE ""
HasFlag(cmd, flag) == \E i \in 1..Len(cmd) : cmd[i] = flag
KeyFlagValues(cmd) ==
    {Unquote(cmd[i + 1]) : i \in {j \in 1..(Len(cmd) - 1) : cmd[j] = "-k"}}

(* whether the server runs the command (exit status 0) when it is reached *)
RemoteAccepts(w, cmd) ==
    CASE Verb(cmd) = <<"repo", "create">> -> ~w.exists
      [] Verb(cmd) = <<"user", "create">> -> ~w.exists
      [] Verb(cmd) = <<"repo", "collab", "remove">> -> w.listed
      [] cmd[1] = "repo" /\ cmd[2] # "collab" -> w.exists
      [] cmd[1] = "user" -> w.exists
      [] OTHER -> TRUE

RemoteApply(w, cmd) ==
    CASE Verb(cmd) = <<"repo", "create">> ->
           [exists |-> TRUE,
            description |-> FlagValue(cmd, "-d"),
            project_name |-> FlagValue(cmd, "-n"),
            private |-> HasFlag(cmd, "-p"),
            hidden |-> FALSE]
      [] Verb(cmd) = <<"repo", "delete">> -> NoRepo
      [] Verb(cmd) = <<"repo", "description">> ->
           [w EXCEPT !.description = Unquote(cmd[4])]
      [] Verb(cmd) = <<"repo", "project-name">> ->
           [w EXCEPT !.project_name = Unquote(cmd[4])]
      [] Verb(cmd) = <<"repo", "private">> -> [w EXCEPT !.private = ParseBool(cmd[4])]
      [] Verb(cmd) = <<"repo", "hidden">> -> [w EXCEPT !.hidden = ParseBool(cmd[4])]
      [] Verb(cmd) = <<"user", "create">> ->
           [exists |-> TRUE, admin |-> HasFlag(cmd, "-a"), keys |-> KeyFlagValues(cmd)]
      [] Verb(cmd) = <<"user", "delete">> -> NoUser
      [] Verb(cmd) = <<"user", "set-admin">> -> [w EXCEPT !.admin = ParseBool(cmd[4])]
      [] Verb(cmd) = <<"user", "add-pubkey">> ->
           [w EXCEPT !.keys = @ \cup {Unquote(cmd[4])}]
      [] Verb(cmd) = <<"user", "remove-pubkey">> ->
           [w EXCEPT !.keys = @ \ {Unquote(cmd[4])}]
      [] Verb(cmd) = <<"repo", "collab", "add">> ->
           [listed |-> TRUE, level |-> IF Len(cmd) >= 6 THEN cmd[6] ELSE "read-write"]
      [] Verb(cmd) = <<"repo", "collab", "remove">> -> NoCollab
      [] cmd[1] = "settings" /\ cmd[2] = "allow-keyless" /\ Len(cmd) = 3 ->
           [w EXCEPT !.allow_keyless = ParseBool(cmd[3])]
      [] cmd[1] = "settings" /\ cmd[2] = "anon-access" /\ Len(cmd) = 3 ->
           [w EXCEPT !.anon_access = cmd[3]]
      [] OTHER -> w

(* Client.Run: one command on one connection.  It fails when the         *)
(* transport fails (fail) or the server refuses the command; a command     *)
(* that fails changes nothing.                                             *)
Run(w, cmd, fail) ==
    IF fail \/ ~RemoteAccepts(w, cmd)
    THEN [ok |-> FALSE, remote |-> w]
    ELSE [ok |-> TRUE, remote |-> RemoteApply(w, cmd)]

(* The control flow every handler shares: the commands are sent one at a   *)
(* time, in order; after the first error the handler adds a diagnostic     *)
(* and returns.  failAt is the position whose transport fails (0: none).   *)
(* faulty variant: the handler adds the diagnostic but does not return *)
RECURSIVE RunUntilError_NoReturn(_, _, _, _)
RunUntilError_NoReturn(cmds, i, w, failAt) ==
    IF i > Len(cmds)
    THEN [log |-> <<>>, remote |-> w, err |-> FALSE]
    ELSE LET one == Run(w, cmds[i], i = failAt)
             rest == RunUntilError_NoReturn(cmds, i + 1, one.remote, failAt)
         IN  [log |-> <<[cmd |-> cmds[i], ok |-> one.ok]>> \o rest.log,
              remote |-> rest.remote, err |-> ~one.ok \/ rest.err]

(* faulty variant: a command that fails is sent once more before giving up *)
RECURSIVE RunUntilError_Retry(_, _, _, _)
RunUntilError_Retry(cmds, i, w, failAt) ==
    IF i > Len(cmds)
    THEN [log |-> <<>>, remote |-> w, err |-> FALSE]
    ELSE LET one == Run(w, cmds[i], i = failAt)
             again == Run(w, cmds[i], FALSE)
             rest == RunUntilError_Retry(cmds, i + 1, IF one.ok THEN one.remote ELSE again.remote, failAt)
         IN  IF one.ok
             THEN [log |-> <<[cmd |-> cmds[i], ok |-> TRUE]>> \o rest.log,
                   remote |-> rest.remote, err |-> rest.err]
             ELSE IF again.ok
             THEN [log |-> <<[cmd |-> cmds[i], ok |-> FALSE], [cmd |-> cmds[i], ok |-> TRUE]>>
                               \o rest.log,
                   remote |-> rest.remote, err |-> rest.err]
             ELSE [log |-> <<[cmd |-> cmds[i], ok |-> FALSE], [cmd |-> cmds[i], ok |-> FALSE]>>,
                   remote |-> w, err |-> TRUE]

(* faulty variant: a repository created earlier in the failed operation is *)
(* deleted again before the error is returned                              *)
RECURSIVE RunUntilError_Rollback(_, _, _, _)
RunUntilError_Rollback(cmds, i, w, failAt) ==
    IF i > Len(cmds)
    THEN [log |-> <<>>, remote |-> w, err |-> FALSE]
    ELSE LET one == Run(w, cmds[i], i = failAt)
             undo == <<"repo", "delete", cmds[1][3]>>
         IN  IF ~one.ok
             THEN IF i > 1 /\ Verb(cmds[1]) = <<"repo", "create">>
                  THEN [log |-> <<[cmd |-> cmds[i], ok |-> FALSE], [cmd |-> undo, ok |-> TRUE]>>,
                        remote |-> Run(w, undo, FALSE).remote, err |-> TRUE]
                  ELSE [log |-> <<[cmd |-> cmds[i], ok |-> FALSE]>>, remote |-> w, err |-> TRUE]
             ELSE LET rest == RunUntilError_Rollback(cmds, i + 1, one.remote, failAt)
                  IN  [log |-> <<[cmd |-> cmds[i], ok |-> TRUE]>> \o rest.log,
                       remote |-> rest.remote, err |-> rest.err]

RECURSIVE RunUntilError(_, _, _, _)
RunUntilError(cmds, i, w, failAt) ==
    IF i > Len(cmds)
    THEN [log |-> <<>>, remote |-> w, err |-> FALSE]
    ELSE LET one == Run(w, cmds[i], i = failAt)
         IN  IF ~one.ok
             THEN [log |-> <<[cmd |-> cmds[i], ok |-> FALSE]>>, remote |-> w, err |-> TRUE]
             ELSE LET rest == RunUntilError(cmds, i + 1, one.remote, failAt)
                  IN  [log |-> <<[cmd |-> cmds[i], ok |-> TRUE]>> \o rest.log,
                       remote |-> rest.remote, err |-> rest.err]

----------------------------------------------------------------------------
(* Text.  A string the parsers take apart is a sequence of atoms: a space, *)
(* a tab, a colon, or a word (a run of other characters, kept whole).  A   *)
(* response is the sequence of its lines, i.e. strings.Split(output, "\n") *)
(* already applied.                                                        *)

SP == " "
TAB == "\t"
COLON == ":"
IsSpace(a) == a \in {SP, TAB}
Word(s) == IF s = "" THEN <<>> ELSE <<s>>

RECURSIVE Text(_)
Text(s) == IF s = <<>> THEN "" ELSE Head(s) \o Text(Tail(s))

RECURSIVE TrimLeft(_)
TrimLeft(s) == IF s # <<>> /\ IsSpace(Head(s)) THEN TrimLeft(Tail(s)) ELSE s
RECURSIVE TrimRight(_)
TrimRight(s) ==
    IF s # <<>> /\ IsSpace(s[Len(s)]) THEN TrimRight(SubSeq(s, 1, Len(s) - 1)) ELSE s
TrimSpace(s) == TrimRight(TrimLeft(s))

HasPrefix(s, prefix) == Len(s) >= Len(prefix) /\ SubSeq(s, 1, Len(prefix)) = prefix
HasSuffix(s, suffix) ==
    Len(s) >= Len(suffix) /\ SubSeq(s, Len(s) - Len(suffix) + 1, Len(s)) = suffix
TrimSuffix(s, suffix) ==
    IF HasSuffix(s, suffix) THEN SubSeq(s, 1, Len(s) - Len(suffix)) ELSE s
(* the position of the first occurrence of sep in s, 0 when there is none *)
Index(s, sep) ==
    LET at == {i \in 1..(Len(s) - Len(sep) + 1) : SubSeq(s, i, i + Len(sep) - 1) = sep}
    IN  IF at = {} THEN 0 ELSE CHOOSE i \in at : \A j \in at : i <= j
Contains(s, sub) == Index(s, sub) # 0

(* strings.Fields: the maximal runs of atoms that are not white space *)
RECURSIVE Fields(_)
Fields(s) ==
    LET t == TrimLeft(s)
        stops == {i \in 1..Len(t) : IsSpace(t[i])}
        end == IF stops = {} THEN Len(t) + 1 ELSE CHOOSE i \in stops : \A j \in stops : i <= j
    IN  IF t = <<>> THEN <<>>
        ELSE <<SubSeq(t, 1, end - 1)>> \o Fields(SubSeq(t, end, Len(t)))

(* The text the server answers a query with. *)

Line(key, value) == key \o <<COLON, SP>> \o value
KeyLine(k) == <<SP, SP, k>>

RepoInfoOutput(w) ==
    << Line(<<"Project", SP, "Name">>, Word(w.project_name)),
       Line(<<"Repository">>, <<RepoName>>),
       Line(<<"Description">>, Word(w.description)),
       Line(<<"Private">>, <<FmtT(w.private)>>),
       Line(<<"Hidden">>, <<FmtT(w.hidden)>>),
       Line(<<"Mirror">>, <<"false">>),
       Line(<<"Owner">>, <<"admin">>),
       Line(<<"Default", SP, "Branch">>, <<"main">>),
       <<"Branches", COLON>> >>

RECURSIVE KeyLines(_)
KeyLines(ks) ==
    IF ks = {} THEN <<>>
    ELSE LET k == CHOOSE x \in ks : \A y \in ks : KeyIndex(x) >= KeyIndex(y)
         IN  <<KeyLine(k)>> \o KeyLines(ks \ {k})
UserInfoOutput(w) ==
    << Line(<<"Username">>, <<UserName>>),
       Line(<<"Admin">>, <<FmtT(w.admin)>>),
       <<"Public", SP, "keys", COLON>> >> \o KeyLines(w.keys)

CollabListOutput(w) ==
    IF w.listed
    THEN << <<"bob", SP, "read-only">> >>
           \o << IF w.level = "" THEN <<UserName>> ELSE <<UserName, SP, w.level>> >>
    ELSE << <<"bob", SP, "read-only">> >>

(* internal/ssh parser *)

(* the nil record a parser returns together with an error *)
Nil == [nil |-> TRUE]

parseKeyValue(line) ==
    LET idx == Index(line, <<COLON, SP>>)
    IN  IF idx = 0
        THEN IF HasSuffix(TrimSpace(line), <<COLON>>)
             THEN [key |-> Text(TrimSuffix(TrimSpace(line), <<COLON>>)), value |-> "",
                   ok |-> TRUE]
             ELSE [key |-> "", value |-> "", ok |-> FALSE]
        ELSE [key |-> Text(TrimSpace(SubSeq(line, 1, idx - 1))),
              value |-> Text(TrimSpace(SubSeq(line, idx + 2, Len(line)))),
              ok |-> TRUE]

RECURSIVE parseKeyValues(_)
parseKeyValues(text) ==
    IF text = <<>> THEN <<>>
    ELSE LET kv == parseKeyValue(Head(text))
         IN  (IF kv.ok THEN <<[key |-> kv.key, value |-> kv.value]>> ELSE <<>>)
                 \o parseKeyValues(Tail(text))

RepoInfoZero == [ProjectName |-> "", Repository |-> "", Description |-> "",
                 Private |-> FALSE, Hidden |-> FALSE, Mirror |-> FALSE, Owner |-> ""]
(* faulty variant: True counts as true *)
RECURSIVE RepoInfoFold_AnyCase(_, _)
RepoInfoFold_AnyCase(result, kvs) ==
    IF kvs = <<>> THEN result
    ELSE LET kv == Head(kvs)
             yes == kv.value \in {"true", "True"}
             next ==
                 CASE kv.key = "Project Name" -> [result EXCEPT !.ProjectName = kv.value]
                   [] kv.key = "Repository" -> [result EXCEPT !.Repository = kv.value]
                   [] kv.key = "Description" -> [result EXCEPT !.Description = kv.value]
                   [] kv.key = "Private" -> [result EXCEPT !.Private = yes]
                   [] kv.key = "Hidden" -> [result EXCEPT !.Hidden = yes]
                   [] kv.key = "Mirror" -> [result EXCEPT !.Mirror = yes]
                   [] kv.key = "Owner" -> [result EXCEPT !.Owner = kv.value]
                   [] OTHER -> result
         IN  RepoInfoFold_AnyCase(next, Tail(kvs))

RECURSIVE RepoInfoFold(_, _)
RepoInfoFold(result, kvs) ==
    IF kvs = <<>> THEN result
    ELSE LET kv == Head(kvs)
             next ==
                 CASE kv.key = "Project Name" -> [result EXCEPT !.ProjectName = kv.value]
                   [] kv.key = "Repository" -> [result EXCEPT !.Repository = kv.value]
                   [] kv.key = "Description" -> [result EXCEPT !.Description = kv.value]
                   [] kv.key = "Private" -> [result EXCEPT !.Private = (kv.value = "true")]
                   [] kv.key = "Hidden" -> [result EXCEPT !.Hidden = (kv.value = "true")]
                   [] kv.key = "Mirror" -> [result EXCEPT !.Mirror = (kv.value = "true")]
                   [] kv.key = "Owner" -> [result EXCEPT !.Owner = kv.value]
                   [] OTHER -> result
         IN  RepoInfoFold(next, Tail(kvs))
ParseRepoInfo(text) ==
    LET result == RepoInfoFold(RepoInfoZero, parseKeyValues(text))
    IN  IF result.Repository = "" THEN [info |-> Nil, err |-> TRUE]
        ELSE [info |-> result, err |-> FALSE]

UserInfoZero == [Username |-> "", Admin |-> FALSE, PublicKeys |-> <<>>]
(* one pass of the loop body per line; inPublicKeys is the loop's flag *)
RECURSIVE UserInfoFold(_, _, _)
UserInfoFold(result, inPublicKeys, lines) ==
    IF lines = <<>> THEN result
    ELSE LET line == Head(lines)
             trimmed == TrimSpace(line)
             endsSection == ~HasPrefix(line, <<SP, SP>>) /\ Contains(line, <<COLON, SP>>)
             kv == parseKeyValue(line)
         IN  IF inPublicKeys /\ trimmed = <<>>
             THEN UserInfoFold(result, TRUE, Tail(lines))
             ELSE IF inPublicKeys /\ ~endsSection
             THEN UserInfoFold([result EXCEPT !.PublicKeys = Append(@, Text(trimmed))],
                               TRUE, Tail(lines))
             ELSE IF ~kv.ok THEN UserInfoFold(result, FALSE, Tail(lines))
             ELSE CASE kv.key = "Username" ->
                         UserInfoFold([result EXCEPT !.Username = kv.value], FALSE, Tail(lines))
                    [] kv.key = "Admin" ->
                         UserInfoFold([result EXCEPT !.Admin = (kv.value = "true")],
                                      FALSE, Tail(lines))
                    [] kv.key = "Public keys" -> UserInfoFold(result, TRUE, Tail(lines))
                    [] OTHER -> UserInfoFold(result, FALSE, Tail(lines))
(* faulty variant: the result is returned without the Username check *)
ParseUserInfo_Unchecked(text) ==
    [info |-> UserInfoFold(UserInfoZero, FALSE, text), err |-> FALSE]

ParseUserInfo(text) ==
    LET result == UserInfoFold(UserInfoZero, FALSE, text)
    IN  IF result.Username = "" THEN [info |-> Nil, err |-> TRUE]
        ELSE [info |-> result, err |-> FALSE]

(* faulty variant: a line without an access level is skipped *)
RECURSIVE CollabEntries_NeedsLevel(_)
CollabEntries_NeedsLevel(lines) ==
    IF lines = <<>> THEN <<>>
    ELSE LET line == TrimSpace(Head(lines))
             parts == Fields(line)
         IN  (IF line = <<>> \/ Len(parts) < 2 THEN <<>>
              ELSE <<[Username |-> Text(parts[1]), AccessLevel |-> Text(parts[2])]>>)
                 \o CollabEntries_NeedsLevel(Tail(lines))

RECURSIVE CollabEntries(_)
CollabEntries(lines) ==
    IF lines = <<>> THEN <<>>
    ELSE LET line == TrimSpace(Head(lines))
             parts == Fields(line)
         IN  (IF line = <<>> \/ Len(parts) = 0 THEN <<>>
              ELSE <<[Username |-> Text(parts[1]),
                      AccessLevel |-> IF Len(parts) >= 2 THEN Text(parts[2]) ELSE ""]>>)
                 \o CollabEntries(Tail(lines))
ParseCollabList(text) ==
    IF \A i \in DOMAIN text : TrimSpace(text[i]) = <<>> THEN <<>>
    ELSE CollabEntries(text)

----------------------------------------------------------------------------
(* A handler call and its response.  The framework calls one handler at a  *)
(* time: the handler fills the response (diagnostics and, on success, the  *)
(* new state), and on return the framework persists the response's state.  *)
(* Until then `state` is still the prior state the handler was given.      *)
(*                                                                         *)
(* With no client configured the first client method dereferences nil and  *)
(* panics before anything is sent.  Otherwise the commands run in order;   *)
(* on the first failure the handler returns with an error diagnostic and   *)
(* sets no state; when all succeed it sets the state that Converged        *)
(* derives from the answer to the final query, unless that fails too.      *)

NoState(model) == [present |-> FALSE, model |-> model]
Derived(model) == [err |-> FALSE, state |-> [present |-> TRUE, model |-> model]]
DeriveError == [err |-> TRUE, state |-> state]
Response(op, plan, result, new) ==
    [op |-> op, plan |-> plan, result |-> result, pre |-> remote, new |-> new]
Idle == last.op = "none"

Handler(op, plan, cmds, failAt, Converged) ==
    /\ Idle
    /\ IF ~client
       THEN /\ last' = Response(op, plan, "panic", state)
            /\ log' = <<>>
            /\ UNCHANGED <<kind, client, config, remote, state, parserVars, sshVars, callerVars>>
       ELSE LET r == RunUntilError(cmds, 1, remote, failAt)
                c == IF r.err THEN DeriveError ELSE Converged[r.remote]
            IN  /\ remote' = r.remote
                /\ log' = r.log
                /\ last' = Response(op, plan, IF c.err THEN "error" ELSE "ok", c.state)
                /\ UNCHANGED <<kind, client, config, state, parserVars, sshVars, callerVars>>

(* the handler has returned: the framework persists the response's state *)
Return ==
    /\ ~Idle
    /\ state' = last.new
    /\ last' = [op |-> "none", plan |-> last.new.model, result |-> "none",
                pre |-> remote, new |-> last.new]
    /\ log' = <<>>
    /\ UNCHANGED <<kind, client, config, remote, parserVars, sshVars, callerVars>>

(* Configure: nil provider data leaves the client unset, a *ssh.Client     *)
(* sets it, anything else is an error.                                     *)
Configure(providerData) ==
    /\ Idle
    /\ client' = IF providerData = "client" THEN TRUE ELSE client
    /\ last' = Response("Configure", state.model,
                        IF providerData = "other" THEN "error" ELSE "ok", state)
    /\ log' = <<>>
    /\ UNCHANGED <<kind, config, remote, state, parserVars, sshVars, callerVars>>

----------------------------------------------------------------------------
(* internal/resource/repository.go *)

RepositoryNull ==
    [ID |-> StringNull, Name |-> StringNull, Description |-> StringNull,
     ProjectName |-> StringNull, Private |-> BoolNull, Hidden |-> BoolNull]

(* the plans the framework derives from a configuration: name required,    *)
(* description and project_name optional and computed (unknown when not    *)
(* configured), private and hidden defaulted to false, id computed         *)
OptionalTexts == {StringUnknown} \cup {StringValue(t) : t \in Texts}
RepositoryConfigs ==
    [ID : {StringUnknown}, Name : {StringValue(RepoName)}, Description : OptionalTexts,
     ProjectName : OptionalTexts, Private : {BoolValue(b) : b \in BOOLEAN},
     Hidden : {BoolValue(b) : b \in BOOLEAN}]

(* faulty variant: a description the model already holds is kept as it is *)
readRepoState_KeepsModel(name, model, parsed) ==
    IF parsed.err THEN DeriveError
    ELSE Derived([ID |-> StringValue(name),
                  Name |-> StringValue(parsed.info.Repository),
                  Description |-> IF model.Description.st = "known" THEN model.Description
                                  ELSE StringValue(parsed.info.Description),
                  ProjectName |-> StringValue(parsed.info.ProjectName),
                  Private |-> BoolValue(parsed.info.Private),
                  Hidden |-> BoolValue(parsed.info.Hidden)])

readRepoState(name, model, parsed) ==
    IF parsed.err THEN DeriveError
    ELSE Derived([ID |-> StringValue(name),
                  Name |-> StringValue(parsed.info.Repository),
                  Description |-> StringValue(parsed.info.Description),
                  ProjectName |-> StringValue(parsed.info.ProjectName),
                  Private |-> BoolValue(parsed.info.Private),
                  Hidden |-> BoolValue(parsed.info.Hidden)])

RepositoryCreateOpts(plan) ==
    [Private |-> ValueBool(plan.Private),
     Description |-> IF ~IsNull(plan.Description) /\ ~IsUnknown(plan.Description)
                     THEN ValueString(plan.Description) ELSE "",
     ProjectName |-> IF ~IsNull(plan.ProjectName) /\ ~IsUnknown(plan.ProjectName)
                     THEN ValueString(plan.ProjectName) ELSE ""]

(* faulty variant: private is applied by a command of its own after the creation *)
RepositoryCreateCmds_PrivateAfter(plan) ==
    LET name == ValueString(plan.Name)
    IN  <<RepoCreate(name, [RepositoryCreateOpts(plan) EXCEPT !.Private = FALSE])>>
            \o (IF ValueBool(plan.Private) THEN <<RepoSetPrivate(name, TRUE)>> ELSE <<>>)
            \o (IF ValueBool(plan.Hidden) THEN <<RepoSetHidden(name, TRUE)>> ELSE <<>>)
            \o <<RepoInfo(name)>>

RepositoryCreateCmds(plan) ==
    LET name == ValueString(plan.Name)
    IN  <<RepoCreate(name, RepositoryCreateOpts(plan))>>
            \o (IF ValueBool(plan.Hidden) THEN <<RepoSetHidden(name, TRUE)>> ELSE <<>>)
            \o <<RepoInfo(name)>>

(* faulty variant: a change of the hidden flag is not sent *)
RepositoryUpdateRest_NoHidden(name, plan, prior) ==
    (IF ~Equal(plan.ProjectName, prior.ProjectName)
     THEN <<RepoSetProjectName(name, IF ~IsNull(plan.ProjectName)
                                     THEN ValueString(plan.ProjectName) ELSE "")>>
     ELSE <<>>)
    \o (IF ~Equal(plan.Private, prior.Private)
        THEN <<RepoSetPrivate(name, ValueBool(plan.Private))>> ELSE <<>>)
    \o <<RepoInfo(name)>>

(* the three fields after the description, as Update handles them *)
RepositoryUpdateRest(name, plan, prior) ==
    (IF ~Equal(plan.ProjectName, prior.ProjectName)
     THEN <<RepoSetProjectName(name, IF ~IsNull(plan.ProjectName)
                                     THEN ValueString(plan.ProjectName) ELSE "")>>
     ELSE <<>>)
    \o (IF ~Equal(plan.Private, prior.Private)
        THEN <<RepoSetPrivate(name, ValueBool(plan.Private))>> ELSE <<>>)
    \o (IF ~Equal(plan.Hidden, prior.Hidden)
        THEN <<RepoSetHidden(name, ValueBool(plan.Hidden))>> ELSE <<>>)
    \o <<RepoInfo(name)>>

(* faulty variant: the description is sent without comparing it with the prior one *)
RepositoryUpdateCmds_NoDiff(plan, prior) ==
    LET name == ValueString(plan.Name)
    IN  <<RepoSetDescription(name, ValueString(plan.Description))>>
            \o RepositoryUpdateRest(name, plan, prior)

(* faulty variant: the description is compared with what the server holds *)
RepositoryUpdateCmds_DiffRemote(plan, prior) ==
    LET name == ValueString(plan.Name)
    IN  (IF ValueString(plan.Description) # remote.description
         THEN <<RepoSetDescription(name, ValueString(plan.Description))>> ELSE <<>>)
        \o RepositoryUpdateRest(name, plan, prior)

(* faulty variant: as in Create, an empty description is not sent *)
RepositoryUpdateCmds_SkipEmpty(plan, prior) ==
    LET name == ValueString(plan.Name)
    IN  (IF ~Equal(plan.Description, prior.Description) /\ ValueString(plan.Description) # ""
         THEN <<RepoSetDescription(name, ValueString(plan.Description))>> ELSE <<>>)
        \o RepositoryUpdateRest(name, plan, prior)

RepositoryUpdateCmds(plan, prior) ==
    LET name == ValueString(plan.Name)
    IN  (IF ~Equal(plan.Description, prior.Description)
         THEN <<RepoSetDescription(name, IF ~IsNull(plan.Description)
                                         THEN ValueString(plan.Description) ELSE "")>>
         ELSE <<>>)
        \o RepositoryUpdateRest(name, plan, prior)

RepositoryCreate ==
    /\ kind = "repo" /\ ~state.present
    /\ LET plan == config
           cmds == RepositoryCreateCmds(plan)
       IN  \E failAt \in 0..Len(cmds) :
              Handler("Create", plan, cmds, failAt,
                      [w \in RemoteRepos |-> readRepoState(ValueString(plan.Name), plan,
                                               ParseRepoInfo(RepoInfoOutput(w)))])

RepositoryRead ==
    /\ kind = "repo" /\ state.present
    /\ LET name == ValueString(state.model.Name)
       IN  \E failAt \in 0..1 :
              Handler("Read", state.model, <<RepoInfo(name)>>, failAt,
                      [w \in RemoteRepos |-> readRepoState(name, state.model,
                                               ParseRepoInfo(RepoInfoOutput(w)))])

RepositoryUpdate ==
    /\ kind = "repo" /\ state.present
    /\ LET plan == [config EXCEPT !.ID = state.model.ID]
           cmds == RepositoryUpdateCmds(plan, state.model)
       IN  \E failAt \in 0..Len(cmds) :
              Handler("Update", plan, cmds, failAt,
                      [w \in RemoteRepos |-> readRepoState(ValueString(plan.Name), plan,
                                               ParseRepoInfo(RepoInfoOutput(w)))])

RepositoryDelete ==
    /\ kind = "repo" /\ state.present
    /\ \E failAt \in 0..1 :
          Handler("Delete", state.model, <<RepoDelete(ValueString(state.model.Name))>>,
                  failAt, [w \in RemoteRepos |-> [err |-> FALSE, state |-> NoState(RepositoryNull)]])

RepositoryImportState ==
    /\ kind = "repo" /\ ~state.present
    /\ LET model == [RepositoryNull EXCEPT !.Name = StringValue(RepoName)]
       IN  \E failAt \in 0..1 :
              Handler("ImportState", model, <<RepoInfo(RepoName)>>, failAt,
                      [w \in RemoteRepos |-> readRepoState(RepoName, model,
                                               ParseRepoInfo(RepoInfoOutput(w)))])

----------------------------------------------------------------------------
(* internal/resource/user.go *)

UserNull ==
    [ID |-> StringNull, Username |-> StringNull, Admin |-> BoolNull, PublicKeys |-> SetNull]

(* username required, admin defaulted to false, public_keys optional *)
UserConfigs ==
    [ID : {StringUnknown}, Username : {StringValue(UserName)},
     Admin : {BoolValue(b) : b \in BOOLEAN},
     PublicKeys : {SetNull} \cup {[st |-> "known", v |-> ks] : ks \in SUBSET Keys}]

(* sort.Strings *)
RECURSIVE SortStrings(_)
SortStrings(s) ==
    IF s = <<>> THEN <<>>
    ELSE LET m == CHOOSE i \in DOMAIN s : \A j \in DOMAIN s : KeyIndex(s[i]) <= KeyIndex(s[j])
         IN  <<s[m]>> \o SortStrings(SubSeq(s, 1, m - 1) \o SubSeq(s, m + 1, Len(s)))

(* Set.ElementsAs: the elements of a set value as a slice *)
RECURSIVE ElementsAs(_)
ElementsAs(ks) ==
    IF ks = {} THEN <<>>
    ELSE LET k == CHOOSE x \in ks : \A y \in ks : KeyIndex(x) <= KeyIndex(y)
         IN  <<k>> \o ElementsAs(ks \ {k})

toStringSet(s) == {s[i] : i \in DOMAIN s}

(* the orders in which a range loop may visit the keys of a map *)
RangeOrders(m) ==
    {o \in [1..Cardinality(m) -> m] : \A i, j \in DOMAIN o : i # j => o[i] # o[j]}

(* faulty variant: no reported keys always gives the empty set *)
readUserState_EmptyForNull(username, model, parsed) ==
    IF parsed.err THEN DeriveError
    ELSE Derived([ID |-> StringValue(username),
                  Username |-> StringValue(parsed.info.Username),
                  Admin |-> BoolValue(parsed.info.Admin),
                  PublicKeys |-> SetValueFrom(SortStrings(parsed.info.PublicKeys))])

readUserState(username, model, parsed) ==
    IF parsed.err THEN DeriveError
    ELSE Derived([ID |-> StringValue(username),
                  Username |-> StringValue(parsed.info.Username),
                  Admin |-> BoolValue(parsed.info.Admin),
                  PublicKeys |->
                      IF Len(parsed.info.PublicKeys) > 0
                      THEN SetValueFrom(SortStrings(parsed.info.PublicKeys))
                      ELSE IF ~IsNull(model.PublicKeys) THEN SetValueFrom(<<>>)
                      ELSE model.PublicKeys])

UserCreateCmds(plan) ==
    LET username == ValueString(plan.Username)
        keys == IF ~IsNull(plan.PublicKeys) /\ ~IsUnknown(plan.PublicKeys)
                THEN ElementsAs(plan.PublicKeys.v) ELSE <<>>
    IN  <<UserCreate(username, [Admin |-> ValueBool(plan.Admin), PublicKeys |-> keys])>>
            \o <<UserInfo(username)>>

(* the keys the two loops of Update act on *)
planSet(plan) ==
    toStringSet(IF ~IsNull(plan.PublicKeys) THEN ElementsAs(plan.PublicKeys.v) ELSE <<>>)
stateSet(prior) ==
    toStringSet(IF ~IsNull(prior.PublicKeys) THEN ElementsAs(prior.PublicKeys.v) ELSE <<>>)
(* faulty variant: the membership test of the remove loop is inverted *)
KeysToRemove_Kept(plan, prior) == {key \in stateSet(prior) : key \in planSet(plan)}
KeysToRemove(plan, prior) == {key \in stateSet(prior) : key \notin planSet(plan)}
KeysToAdd(plan, prior) == {key \in planSet(plan) : key \notin stateSet(prior)}

(* removes and adds: the orders in which the two range loops visit the     *)
(* keys they act on                                                        *)
(* faulty variant: the add loop runs before the remove loop *)
UserUpdateCmds_AddFirst(plan, prior, removes, adds) ==
    LET username == ValueString(plan.Username)
    IN  (IF ~Equal(plan.Admin, prior.Admin)
         THEN <<UserSetAdmin(username, ValueBool(plan.Admin))>> ELSE <<>>)
        \o (IF ~Equal(plan.PublicKeys, prior.PublicKeys)
            THEN [i \in DOMAIN adds |-> UserAddPublicKey(username, adds[i])]
                     \o [i \in DOMAIN removes |-> UserRemovePublicKey(username, removes[i])]
            ELSE <<>>)
        \o <<UserInfo(username)>>

UserUpdateCmds(plan, prior, removes, adds) ==
    LET username == ValueString(plan.Username)
    IN  (IF ~Equal(plan.Admin, prior.Admin)
         THEN <<UserSetAdmin(username, ValueBool(plan.Admin))>> ELSE <<>>)
        \o (IF ~Equal(plan.PublicKeys, prior.PublicKeys)
            THEN [i \in DOMAIN removes |-> UserRemovePublicKey(username, removes[i])]
                     \o [i \in DOMAIN adds |-> UserAddPublicKey(username, adds[i])]
            ELSE <<>>)
        \o <<UserInfo(username)>>

UserResourceCreate ==
    /\ kind = "user" /\ ~state.present
    /\ LET plan == config
           cmds == UserCreateCmds(plan)
       IN  \E failAt \in 0..Len(cmds) :
              Handler("Create", plan, cmds, failAt,
                      [w \in RemoteUsers |-> readUserState(ValueString(plan.Username), plan,
                                               ParseUserInfo(UserInfoOutput(w)))])

UserResourceRead ==
    /\ kind = "user" /\ state.present
    /\ LET username == ValueString(state.model.Username)
       IN  \E failAt \in 0..1 :
              Handler("Read", state.model, <<UserInfo(username)>>, failAt,
                      [w \in RemoteUsers |-> readUserState(username, state.model,
                                               ParseUserInfo(UserInfoOutput(w)))])

UserResourceUpdate ==
    /\ kind = "user" /\ state.present
    /\ LET plan == [config EXCEPT !.ID = state.model.ID]
       IN  \E removes \in RangeOrders(KeysToRemove(plan, state.model)),
              adds \in RangeOrders(KeysToAdd(plan, state.model)) :
              LET cmds == UserUpdateCmds(plan, state.model, removes, adds)
              IN  \E failAt \in 0..Len(cmds) :
                     Handler("Update", plan, cmds, failAt,
                             [w \in RemoteUsers |-> readUserState(ValueString(plan.Username), plan,
                                                      ParseUserInfo(UserInfoOutput(w)))])

UserResourceDelete ==
    /\ kind = "user" /\ state.present
    /\ \E failAt \in 0..1 :
          Handler("Delete", state.model, <<UserDelete(ValueString(state.model.Username))>>,
                  failAt, [w \in RemoteUsers |-> [err |-> FALSE, state |-> NoState(UserNull)]])

UserResourceImportState ==
    /\ kind = "user" /\ ~state.present
    /\ LET model == [UserNull EXCEPT !.Username = StringValue(UserName)]
       IN  \E failAt \in 0..1 :
              Handler("ImportState", model, <<UserInfo(UserName)>>, failAt,
                      [w \in RemoteUsers |-> readUserState(UserName, model,
                                               ParseUserInfo(UserInfoOutput(w)))])

----------------------------------------------------------------------------
(* internal/resource/repository_collaborator.go *)

CollaboratorNull ==
    [ID |-> StringNull, Repository |-> StringNull, Username |-> StringNull,
     AccessLevel |-> StringNull]

(* repository and username required, access_level defaulted to read-write *)
CollaboratorConfigs ==
    [ID : {StringUnknown}, Repository : {StringValue(RepoName)},
     Username : {StringValue(UserName)},
     AccessLevel : {StringValue(l) : l \in AccessLevels}]

(* faulty variant: the first listed entry is taken, whoever it names *)
readCollabState_First(repo, username, model, collabs) ==
    IF collabs # <<>>
    THEN LET c == collabs[1]
             accessLevel == IF c.AccessLevel = "" THEN "read-write" ELSE c.AccessLevel
         IN  Derived([ID |-> StringValue(repo \o "/" \o username),
                      Repository |-> StringValue(repo),
                      Username |-> StringValue(username),
                      AccessLevel |-> StringValue(accessLevel)])
    ELSE DeriveError

readCollabState(repo, username, model, collabs) ==
    IF \E i \in DOMAIN collabs : collabs[i].Username = username
    THEN LET c == collabs[CHOOSE i \in DOMAIN collabs :
                              /\ collabs[i].Username = username
                              /\ \A j \in 1..(i - 1) : collabs[j].Username # username]
             accessLevel == IF c.AccessLevel = "" THEN "read-write" ELSE c.AccessLevel
         IN  Derived([ID |-> StringValue(repo \o "/" \o username),
                      Repository |-> StringValue(repo),
                      Username |-> StringValue(username),
                      AccessLevel |-> StringValue(accessLevel)])
    ELSE DeriveError

RepositoryCollaboratorCreateCmds(plan) ==
    LET repo == ValueString(plan.Repository)
        username == ValueString(plan.Username)
        accessLevel == ValueString(plan.AccessLevel)
    IN  <<CollabAdd(repo, username, accessLevel), CollabList(repo)>>

(* faulty variant: Update skips the add when the access level is the recorded one *)
RepositoryCollaboratorUpdateCmds_Diff(plan) ==
    LET repo == ValueString(plan.Repository)
        username == ValueString(plan.Username)
        accessLevel == ValueString(plan.AccessLevel)
    IN  (IF ~Equal(plan.AccessLevel, state.model.AccessLevel)
         THEN <<CollabAdd(repo, username, accessLevel)>> ELSE <<>>)
        \o <<CollabList(repo)>>

(* collab add with a different access level updates the existing entry *)
RepositoryCollaboratorUpdateCmds(plan) ==
    LET repo == ValueString(plan.Repository)
        username == ValueString(plan.Username)
        accessLevel == ValueString(plan.AccessLevel)
    IN  <<CollabAdd(repo, username, accessLevel), CollabList(repo)>>

RepositoryCollaboratorCreate ==
    /\ kind = "collab" /\ ~state.present
    /\ LET plan == config
           cmds == RepositoryCollaboratorCreateCmds(plan)
       IN  \E failAt \in 0..Len(cmds) :
              Handler("Create", plan, cmds, failAt,
                      [w \in RemoteCollabs |-> readCollabState(ValueString(plan.Repository),
                                                 ValueString(plan.Username), plan,
                                                 ParseCollabList(CollabListOutput(w)))])

RepositoryCollaboratorRead ==
    /\ kind = "collab" /\ state.present
    /\ LET repo == ValueString(state.model.Repository)
           username == ValueString(state.model.Username)
       IN  \E failAt \in 0..1 :
              Handler("Read", state.model, <<CollabList(repo)>>, failAt,
                      [w \in RemoteCollabs |-> readCollabState(repo, username, state.model,
                                                 ParseCollabList(CollabListOutput(w)))])

RepositoryCollaboratorUpdate ==
    /\ kind = "collab" /\ state.present
    /\ LET plan == [config EXCEPT !.ID = state.model.ID]
           cmds == RepositoryCollaboratorUpdateCmds(plan)
       IN  \E failAt \in 0..Len(cmds) :
              Handler("Update", plan, cmds, failAt,
                      [w \in RemoteCollabs |-> readCollabState(ValueString(plan.Repository),
                                                 ValueString(plan.Username), plan,
                                                 ParseCollabList(CollabListOutput(w)))])

RepositoryCollaboratorDelete ==
    /\ kind = "collab" /\ state.present
    /\ \E failAt \in 0..1 :
          Handler("Delete", state.model,
                  <<CollabRemove(ValueString(state.model.Repository),
                                 ValueString(state.model.Username))>>,
                  failAt, [w \in RemoteCollabs |-> [err |-> FALSE, state |-> NoState(CollaboratorNull)]])

(* import identifiers: proj/alice, proj, proj/alice/x, proj/ *)
SLASH == "/"
ImportIDs ==
    {<<RepoName, SLASH, UserName>>, <<RepoName>>,
     <<RepoName, SLASH, UserName, SLASH, "x">>, <<RepoName, SLASH>>}
(* faulty variant: strings.Split, which splits at every sep *)
RECURSIVE SplitN2_Every(_, _)
SplitN2_Every(s, sep) ==
    LET i == Index(s, sep)
    IN  IF i = 0 THEN <<s>>
        ELSE <<SubSeq(s, 1, i - 1)>> \o SplitN2_Every(SubSeq(s, i + Len(sep), Len(s)), sep)

(* strings.SplitN(s, sep, 2): split at the first sep only *)
SplitN2(s, sep) ==
    LET i == Index(s, sep)
    IN  IF i = 0 THEN <<s>>
        ELSE <<SubSeq(s, 1, i - 1), SubSeq(s, i + Len(sep), Len(s))>>

RepositoryCollaboratorImportState ==
    /\ kind = "collab" /\ ~state.present
    /\ \E id \in ImportIDs :
          LET split == SplitN2(id, <<SLASH>>)
              parts == [i \in DOMAIN split |-> Text(split[i])]
          IN  IF Len(parts) # 2
              THEN /\ Idle
                   /\ last' = Response("ImportState", CollaboratorNull, "error", state)
                   /\ log' = <<>>
                   /\ UNCHANGED <<kind, client, config, remote, state, parserVars, sshVars, callerVars>>
              ELSE LET model == [CollaboratorNull EXCEPT
                                    !.Repository = StringValue(parts[1]),
                                    !.Username = StringValue(parts[2])]
                   IN  \E failAt \in 0..1 :
                          Handler("ImportState", model, <<CollabList(parts[1])>>, failAt,
                                  [w \in RemoteCollabs |-> readCollabState(parts[1], parts[2], model,
                                                ParseCollabList(CollabListOutput(w)))])

----------------------------------------------------------------------------
(* internal/resource/server_settings.go *)

ServerSettingsNull == [ID |-> StringNull, AllowKeyless |-> BoolNull, AnonAccess |-> StringNull]

(* allow_keyless and anon_access optional and computed *)
ServerSettingsConfigs ==
    [ID : {StringUnknown},
     AllowKeyless : {BoolUnknown} \cup {BoolValue(b) : b \in BOOLEAN},
     AnonAccess : {StringUnknown} \cup {StringValue(l) : l \in AccessLevels}]

applySettings(model) ==
    (IF ~IsNull(model.AllowKeyless) /\ ~IsUnknown(model.AllowKeyless)
     THEN <<SettingsSetAllowKeyless(ValueBool(model.AllowKeyless))>> ELSE <<>>)
    \o (IF ~IsNull(model.AnonAccess) /\ ~IsUnknown(model.AnonAccess)
        THEN <<SettingsSetAnonAccess(ValueString(model.AnonAccess))>> ELSE <<>>)

readSettingsStateCmds == <<SettingsGetAllowKeyless, SettingsGetAnonAccess>>

readSettingsState(model, w) ==
    Derived([ID |-> StringValue("settings"),
             AllowKeyless |-> BoolValue(FmtT(w.allow_keyless) = "true"),
             AnonAccess |-> StringValue(w.anon_access)])

ServerSettingsCreate ==
    /\ kind = "settings" /\ ~state.present
    /\ LET plan == config
           cmds == applySettings(plan) \o readSettingsStateCmds
       IN  \E failAt \in 0..Len(cmds) :
              Handler("Create", plan, cmds, failAt, [w \in RemoteSettings |-> readSettingsState(plan, w)])

ServerSettingsRead ==
    /\ kind = "settings" /\ state.present
    /\ \E failAt \in 0..Len(readSettingsStateCmds) :
          Handler("Read", state.model, readSettingsStateCmds, failAt,
                  [w \in RemoteSettings |-> readSettingsState(state.model, w)])

ServerSettingsUpdate ==
    /\ kind = "settings" /\ state.present
    /\ LET plan == [config EXCEPT !.ID = state.model.ID]
           cmds == applySettings(plan) \o readSettingsStateCmds
       IN  \E failAt \in 0..Len(cmds) :
              Handler("Update", plan, cmds, failAt, [w \in RemoteSettings |-> readSettingsState(plan, w)])

(* faulty variant: Delete puts the server back to its defaults *)
ServerSettingsDelete_Reset ==
    /\ kind = "settings"
    /\ \E failAt \in 0..1 :
          Handler("Delete", state.model, <<SettingsSetAnonAccess("read-only")>>, failAt,
                  [w \in RemoteSettings |-> [err |-> FALSE, state |-> NoState(ServerSettingsNull)]])

(* Delete has an empty body: it reads neither the request nor the client,  *)
(* sends nothing and adds no diagnostic; the framework drops the state.    *)
ServerSettingsDelete ==
    /\ kind = "settings"
    /\ Idle
    /\ last' = Response("Delete", state.model, "ok", NoState(ServerSettingsNull))
    /\ log' = <<>>
    /\ UNCHANGED <<kind, client, config, remote, state, parserVars, sshVars, callerVars>>

ServerSettingsImportState ==
    /\ kind = "settings" /\ ~state.present
    /\ \E failAt \in 0..Len(readSettingsStateCmds) :
          Handler("ImportState", ServerSettingsNull, readSettingsStateCmds, failAt,
                  [w \in RemoteSettings |-> readSettingsState(ServerSettingsNull, w)])

----------------------------------------------------------------------------
(* The parsers on their own: a response text, then one parser applied to   *)
(* it.  A text is either put together from up to MaxLines arbitrary lines  *)
(* of the kind the parser meets, or a complete response.                   *)

NotParsed == [fn |-> "none", result |-> Nil]
NotCalled == [op |-> "none"]

TextsOf(lines) == UNION {[1..n -> lines] : n \in 0..MaxLines}
Reverse(t) == [i \in 1..Len(t) |-> t[Len(t) + 1 - i]]
BoolTokens == {"true", "false", "True", "yes"}
ValueTexts ==
    {<<>>, <<"a", COLON, SP, "b">>, <<"two", SP, "words">>}
        \cup {<<TextName[i]>> : i \in 1..NumTexts}

RepoLines ==
    {Line(<<"Repository">>, <<RepoName>>),
     <<"Repository", COLON>>,
     <<SP, SP, "Repository", COLON, SP, "other">>,
     Line(<<"Project", SP, "Name">>, <<TextName[1]>>),
     Line(<<"Description">>, <<"a", COLON, SP, "b">>),
     Line(<<"Private">>, <<"true">>),
     Line(<<"Private">>, <<"True">>),
     Line(<<"Hidden">>, <<"yes">>),
     Line(<<"X">>, <<"v">>),
     <<"X", COLON>>,
     <<"junk">>,
     <<>>}
RepoResponse(projectName, description, private, hidden, mirror) ==
    << Line(<<"Project", SP, "Name">>, projectName),
       Line(<<"Repository">>, <<RepoName>>),
       Line(<<"Description">>, description),
       Line(<<"Private">>, <<private>>),
       Line(<<"Hidden">>, <<hidden>>),
       Line(<<"Mirror">>, <<mirror>>),
       Line(<<"Owner">>, <<"admin">>) >>
RepoResponses ==
    {RepoResponse(pn, d, p, h, m) :
         pn \in ValueTexts, d \in ValueTexts, p \in BoolTokens, h \in BoolTokens,
         m \in BoolTokens}
RepoInputs == TextsOf(RepoLines) \cup RepoResponses \cup {Reverse(t) : t \in RepoResponses}

UserLines ==
    {Line(<<"Username">>, <<UserName>>),
     <<"Username", COLON>>,
     Line(<<"Admin">>, <<"true">>),
     <<"Public", SP, "keys", COLON>>,
     KeyLine(KeyName[1]),
     <<SP, SP, KeyName[2], SP, "note", COLON, SP, "b">>,
     <<TAB, KeyName[2]>>,
     <<KeyName[3]>>,
     Line(<<"X">>, <<"v">>),
     <<"X", COLON>>,
     <<SP, SP>>}
KeySeqs == UNION {RangeOrders(ks) : ks \in SUBSET Keys}
UserResponse(admin, keys, trailer) ==
    << Line(<<"Username">>, <<UserName>>),
       Line(<<"Admin">>, <<admin>>),
       <<"Public", SP, "keys", COLON>> >>
        \o [i \in DOMAIN keys |-> KeyLine(keys[i])] \o trailer
UserResponses ==
    {UserResponse(a, ks, t) :
         a \in {"true", "false"}, ks \in KeySeqs,
         t \in {<<>>, <<Line(<<"X">>, <<"v">>)>>, << <<"X", COLON>> >>}}
UserInputs == TextsOf(UserLines) \cup UserResponses

CollabLines ==
    {<<UserName, SP, "read-write">>,
     <<"bob", SP, "read-only">>,
     <<UserName>>,
     <<SP, SP, "carol", SP, SP, "admin-access", SP>>,
     <<TAB, "dave", TAB, "no-access", SP, "extra">>,
     <<SP, TAB>>,
     <<>>}
CollabInputs == TextsOf(CollabLines)

ParseRepoInfoCall ==
    /\ kind = "parser" /\ parse.fn = "none"
    /\ output \in RepoInputs
    /\ parse' = [fn |-> "ParseRepoInfo", result |-> ParseRepoInfo(output)]
    /\ UNCHANGED <<resourceVars, output, sshVars, callerVars>>

ParseUserInfoCall ==
    /\ kind = "parser" /\ parse.fn = "none"
    /\ output \in UserInputs
    /\ parse' = [fn |-> "ParseUserInfo", result |-> ParseUserInfo(output)]
    /\ UNCHANGED <<resourceVars, output, sshVars, callerVars>>

ParseCollabListCall ==
    /\ kind = "parser" /\ parse.fn = "none"
    /\ output \in CollabInputs
    /\ parse' = [fn |-> "ParseCollabList", result |-> ParseCollabList(output)]
    /\ UNCHANGED <<resourceVars, output, sshVars, callerVars>>

(* the resource variables of a behaviour that follows no resource *)
NoResource(k) ==
    /\ kind = k
    /\ remote = <<>>
    /\ client = FALSE
    /\ config = <<>>
    /\ state = NoState(<<>>)
    /\ log = <<>>
    /\ last = [op |-> "none", plan |-> <<>>, result |-> "none", pre |-> <<>>,
               new |-> NoState(<<>>)]

InitParser ==
    /\ NoResource("parser")
    /\ output \in RepoInputs \cup UserInputs \cup CollabInputs
    /\ parse = NotParsed
    /\ ssh = NotCalled
    /\ conns = 0
    /\ callers = <<>>

(* readRepoState on what RepoInfo returned for the name asked for, as in   *)
(* ImportState: the parsed response may name any repository              *)
readRepoStateCall ==
    /\ kind = "parser" /\ parse.fn = "ParseRepoInfo" /\ last.op = "none"
    /\ LET model == [RepositoryNull EXCEPT !.Name = StringValue(RepoName)]
           derived == readRepoState(RepoName, model, parse.result)
       IN  last' = [op |-> "readRepoState", plan |-> model,
                    result |-> IF derived.err THEN "error" ELSE "ok",
                    pre |-> remote, new |-> derived.state]
    /\ UNCHANGED <<kind, client, config, remote, state, log, parserVars, sshVars, callerVars>>

NextParser ==
    ParseRepoInfoCall \/ ParseUserInfoCall \/ ParseCollabListCall \/ readRepoStateCall
SpecParser == InitParser /\ [][NextParser]_vars

----------------------------------------------------------------------------
(* The SSH client (client.go).  NewClient resolves the authentication      *)
(* material of a ClientConfig against the file system and the agent        *)
(* socket of the environment; Run executes one command.  What a call       *)
(* touches (files read, sockets dialled, connections opened and closed)    *)
(* is recorded as its sequence of events.                                  *)

MaxRuns == 2   \* Run calls made on one client

PEMs == {"PEM-A", "PEM-B"}                 \* texts ssh.ParsePrivateKey accepts
AuthorizedKeys == {"PUB-B"}                \* texts ssh.ParseAuthorizedKey accepts
Files == [p \in {"id_ok", "id_garbage", "pub_ok", "pub_garbage"} |->
             CASE p = "id_ok" -> "PEM-B"
               [] p = "pub_ok" -> "PUB-B"
               [] OTHER -> "not-a-valid-key"]

ClientConfigs ==
    [PrivateKey : {"", "PEM-A", "not-a-valid-key"},
     PrivateKeyPath : {"", "id_ok", "id_missing", "id_garbage"},
     UseAgent : BOOLEAN,
     IdentityFile : {"", "pub_ok", "pub_missing", "pub_garbage"}]
Environments == [SSH_AUTH_SOCK : {"", "agent.sock"}, listening : BOOLEAN]

Event(ev, conn, arg) == [ev |-> ev, conn |-> conn, arg |-> arg]

ReadFile(path) ==
    IF path \in DOMAIN Files
    THEN [err |-> FALSE, data |-> Files[path]]
    ELSE [err |-> TRUE, data |-> ""]
ParsePrivateKey(data) ==
    IF data \in PEMs
    THEN [err |-> FALSE, signer |-> [key |-> data]]
    ELSE [err |-> TRUE, signer |-> Nil]
ParseAuthorizedKey(data) ==
    IF data \in AuthorizedKeys
    THEN [err |-> FALSE, key |-> data]
    ELSE [err |-> TRUE, key |-> ""]

(* the private key of NewClient: key content, else the key file *)
NewClientSigner(cfg) ==
    IF cfg.PrivateKey # ""
    THEN LET parsed == ParsePrivateKey(cfg.PrivateKey)
         IN  [err |-> IF parsed.err THEN "parsing private key" ELSE "",
              signer |-> parsed.signer, events |-> <<>>]
    ELSE IF cfg.PrivateKeyPath # ""
    THEN LET keyData == ReadFile(cfg.PrivateKeyPath)
             parsed == ParsePrivateKey(keyData.data)
             read == <<Event("ReadFile", 0, cfg.PrivateKeyPath)>>
         IN  IF keyData.err
             THEN [err |-> "reading private key file", signer |-> Nil, events |-> read]
             ELSE [err |-> IF parsed.err THEN "parsing private key from file" ELSE "",
                   signer |-> parsed.signer, events |-> read]
    ELSE [err |-> "", signer |-> Nil, events |-> <<>>]

filteredAgentAuth(identityFile) ==
    LET pubKeyData == ReadFile(identityFile)
        wantKey == ParseAuthorizedKey(pubKeyData.data)
        read == <<Event("ReadFile", 0, identityFile)>>
    IN  IF pubKeyData.err
        THEN [err |-> "reading identity file", auth |-> Nil, events |-> read]
        ELSE IF wantKey.err
        THEN [err |-> "parsing public key", auth |-> Nil, events |-> read]
        ELSE [err |-> "", events |-> read,
              auth |-> [method |-> "PublicKeysCallback", only |-> wantKey.key]]

(* the agent of NewClient: dialled when requested and the socket is named *)
NewClientAgent(cfg, env) ==
    IF cfg.UseAgent /\ env.SSH_AUTH_SOCK # ""
    THEN LET dial == <<Event("net.Dial", 0, env.SSH_AUTH_SOCK)>>
             filtered == filteredAgentAuth(cfg.IdentityFile)
         IN  IF ~env.listening
             THEN [err |-> "", agentConn |-> Nil, agentAuth |-> Nil, events |-> dial]
             ELSE IF cfg.IdentityFile # ""
             THEN IF filtered.err # ""
                  THEN [err |-> "filtering agent keys with identity file",
                        agentConn |-> Nil, agentAuth |-> Nil,
                        events |-> dial \o filtered.events
                                       \o <<Event("agent.Close", 0, env.SSH_AUTH_SOCK)>>]
                  ELSE [err |-> "", agentConn |-> env.SSH_AUTH_SOCK,
                        agentAuth |-> filtered.auth, events |-> dial \o filtered.events]
             ELSE [err |-> "", agentConn |-> env.SSH_AUTH_SOCK,
                   agentAuth |-> [method |-> "PublicKeysCallback", only |-> ""],
                   events |-> dial]
    ELSE [err |-> "", agentConn |-> Nil, agentAuth |-> Nil, events |-> <<>>]

NoClient(err, events) == [client |-> Nil, err |-> err, events |-> events]

(* faulty variant: the agent is set up only when no private key resolved *)
NewClient_AgentOnlyWithoutKey(cfg, env) ==
    LET key == NewClientSigner(cfg)
        agt == IF key.signer # Nil
               THEN [err |-> "", agentConn |-> Nil, agentAuth |-> Nil, events |-> <<>>]
               ELSE NewClientAgent(cfg, env)
    IN  IF key.err # "" THEN NoClient(key.err, key.events)
        ELSE IF agt.err # "" THEN NoClient(agt.err, key.events \o agt.events)
        ELSE IF key.signer = Nil /\ agt.agentAuth = Nil
        THEN NoClient("no authentication method available", key.events \o agt.events)
        ELSE [client |-> [signer |-> key.signer, agentConn |-> agt.agentConn,
                          agentAuth |-> agt.agentAuth],
              err |-> "", events |-> key.events \o agt.events]

(* faulty variant: a private key that cannot be read or parsed is passed over *)
NewClient_FallsBack(cfg, env) ==
    LET key == NewClientSigner(cfg)
        agt == NewClientAgent(cfg, env)
    IN  IF agt.err # "" THEN NoClient(agt.err, key.events \o agt.events)
        ELSE IF key.signer = Nil /\ agt.agentAuth = Nil
        THEN NoClient("no authentication method available", key.events \o agt.events)
        ELSE [client |-> [signer |-> key.signer, agentConn |-> agt.agentConn,
                          agentAuth |-> agt.agentAuth],
              err |-> "", events |-> key.events \o agt.events]

NewClient(cfg, env) ==
    LET key == NewClientSigner(cfg)
        agt == NewClientAgent(cfg, env)
    IN  IF key.err # "" THEN NoClient(key.err, key.events)
        ELSE IF agt.err # "" THEN NoClient(agt.err, key.events \o agt.events)
        ELSE IF key.signer = Nil /\ agt.agentAuth = Nil
        THEN NoClient("no authentication method available", key.events \o agt.events)
        ELSE [client |-> [signer |-> key.signer, agentConn |-> agt.agentConn,
                          agentAuth |-> agt.agentAuth],
              err |-> "", events |-> key.events \o agt.events]

(* the methods Run offers to the server, in the order it offers them *)
authMethods(c) ==
    (IF c.signer # Nil THEN <<[method |-> "PublicKeys", signer |-> c.signer]>> ELSE <<>>)
        \o (IF c.agentAuth # Nil THEN <<c.agentAuth>> ELSE <<>>)

RunFaults == {"none", "dial", "session", "command"}

(* faulty variant: the connection is not closed when no session can be made *)
ClientRun_LeakOnSessionError(c, command, fault, conn, w) ==
    LET dial == Event("ssh.Dial", conn, authMethods(c))
        run == Run(w, command, fault = "command")
    IN  IF fault = "dial"
        THEN [ok |-> FALSE, remote |-> w, events |-> <<Event("ssh.Dial failed", conn, authMethods(c))>>]
        ELSE IF fault = "session"
        THEN [ok |-> FALSE, remote |-> w,
              events |-> <<dial, Event("NewSession failed", conn, <<>>)>>]
        ELSE [ok |-> run.ok, remote |-> run.remote,
              events |-> <<dial, Event("NewSession", conn, <<>>),
                           Event("session.Run", conn, command),
                           Event("session.Close", conn, <<>>),
                           Event("conn.Close", conn, <<>>)>>]

(* Client.Run with what it does to its connection: conn names the          *)
(* connection ssh.Dial returns to this call; the deferred closes run in    *)
(* reverse order on every return after the dial.                           *)
ClientRun(c, command, fault, conn, w) ==
    LET dial == Event("ssh.Dial", conn, authMethods(c))
        run == Run(w, command, fault = "command")
    IN  IF fault = "dial"
        THEN [ok |-> FALSE, remote |-> w, events |-> <<Event("ssh.Dial failed", conn, authMethods(c))>>]
        ELSE IF fault = "session"
        THEN [ok |-> FALSE, remote |-> w,
              events |-> <<dial, Event("NewSession failed", conn, <<>>),
                           Event("conn.Close", conn, <<>>)>>]
        ELSE [ok |-> run.ok, remote |-> run.remote,
              events |-> <<dial, Event("NewSession", conn, <<>>),
                           Event("session.Run", conn, command),
                           Event("session.Close", conn, <<>>),
                           Event("conn.Close", conn, <<>>)>>]

CountEvents(events, ev) == Cardinality({i \in DOMAIN events : events[i].ev = ev})

ClientCommands ==
    {SettingsGetAllowKeyless, SettingsSetAllowKeyless(FALSE), SettingsSetAnonAccess("no-access")}

NewClientCall ==
    /\ kind = "client" /\ ssh.op = "none"
    /\ LET r == NewClient(config.cfg, config.env)
       IN  ssh' = [op |-> "NewClient", client |-> r.client, err |-> r.err,
                   events |-> r.events, runs |-> 0, opened |-> 0]
    /\ UNCHANGED <<resourceVars, parserVars, conns, callerVars>>

RunCall ==
    /\ kind = "client" /\ ssh.op # "none" /\ ssh.client # Nil /\ ssh.runs < MaxRuns
    /\ \E command \in ClientCommands, fault \in RunFaults :
          LET r == ClientRun(ssh.client, command, fault, ssh.opened + 1, remote)
          IN  /\ ssh' = [op |-> "Run", client |-> ssh.client,
                         err |-> IF r.ok THEN "" ELSE fault,
                         events |-> r.events, runs |-> ssh.runs + 1,
                         opened |-> ssh.opened + CountEvents(r.events, "ssh.Dial")]
              /\ conns' = conns + CountEvents(r.events, "ssh.Dial")
                                - CountEvents(r.events, "conn.Close")
              /\ remote' = r.remote
    /\ UNCHANGED <<kind, client, config, state, log, last, parserVars, callerVars>>

InitClient ==
    /\ kind = "client"
    /\ remote = [allow_keyless |-> TRUE, anon_access |-> "read-only"]
    /\ client = FALSE
    /\ config \in [cfg : ClientConfigs, env : Environments]
    /\ state = NoState(<<>>)
    /\ log = <<>>
    /\ last = [op |-> "none", plan |-> <<>>, result |-> "none", pre |-> <<>>,
               new |-> NoState(<<>>)]
    /\ output = <<>>
    /\ parse = NotParsed
    /\ ssh = NotCalled
    /\ conns = 0
    /\ callers = <<>>

NextClient == NewClientCall \/ RunCall
SpecClient == InitClient /\ [][NextClient]_vars

----------------------------------------------------------------------------

NullModel(k) ==
    CASE k = "repo" -> RepositoryNull
      [] k = "user" -> UserNull
      [] k = "collab" -> CollaboratorNull
      [] k = "settings" -> ServerSettingsNull
Configs(k) ==
    CASE k = "repo" -> RepositoryConfigs
      [] k = "user" -> UserConfigs
      [] k = "collab" -> CollaboratorConfigs
      [] k = "settings" -> ServerSettingsConfigs
Remotes(k) ==
    CASE k = "repo" -> RemoteRepos
      [] k = "user" -> RemoteUsers
      [] k = "collab" -> RemoteCollabs
      [] k = "settings" -> RemoteSettings

(* a new resource instance: no client yet, no recorded state; the server   *)
(* may hold anything                                                       *)
InitKind(k) ==
    /\ kind = k
    /\ client = FALSE
    /\ config \in Configs(k)
    /\ remote \in Remotes(k)
    /\ state = NoState(NullModel(k))
    /\ log = <<>>
    /\ last = [op |-> "none", plan |-> NullModel(k), result |-> "none",
               pre |-> remote, new |-> NoState(NullModel(k))]
    /\ output = <<>>
    /\ parse = NotParsed
    /\ ssh = NotCalled
    /\ conns = 0
    /\ callers = <<>>

Init == \E k \in Kinds : InitKind(k)

Framework ==
    \/ \E providerData \in {"nil", "client", "other"} : Configure(providerData)
    \/ Return

RepositoryHandlers ==
    \/ RepositoryCreate
    \/ RepositoryRead
    \/ RepositoryUpdate
    \/ RepositoryDelete
    \/ RepositoryImportState

UserHandlers ==
    \/ UserResourceCreate
    \/ UserResourceRead
    \/ UserResourceUpdate
    \/ UserResourceDelete
    \/ UserResourceImportState

CollaboratorHandlers ==
    \/ RepositoryCollaboratorCreate
    \/ RepositoryCollaboratorRead
    \/ RepositoryCollaboratorUpdate
    \/ RepositoryCollaboratorDelete
    \/ RepositoryCollaboratorImportState

ServerSettingsHandlers ==
    \/ ServerSettingsCreate
    \/ ServerSettingsRead
    \/ ServerSettingsUpdate
    \/ ServerSettingsDelete
    \/ ServerSettingsImportState

Next ==
    \/ Framework
    \/ RepositoryHandlers
    \/ UserHandlers
    \/ CollaboratorHandlers
    \/ ServerSettingsHandlers

Spec == Init /\ [][Next]_vars
SpecRepository == InitKind("repo") /\ [][Framework \/ RepositoryHandlers]_vars
SpecUser == InitKind("user") /\ [][Framework \/ UserHandlers]_vars
SpecCollaborator == InitKind("collab") /\ [][Framework \/ CollaboratorHandlers]_vars
SpecServerSettings == InitKind("settings") /\ [][Framework \/ ServerSettingsHandlers]_vars

----------------------------------------------------------------------------
(* Two callers at once.  Each caller is a provider run of its own with its *)
(* own plan and its own recorded state, running Update on the same         *)
(* repository or user.  Here a handler call is followed command by         *)
(* command: Send puts the caller's next command on the wire, Complete is   *)
(* the server running it and the call of the client method returning.      *)
(* `log` is the order in which the server ran the commands.                *)

Callers == {1, 2}

RaceRepoRemotes == {w \in RemoteRepos \ {NoRepo} : w.project_name = "" /\ ~w.hidden}
RaceRepoPlans ==
    {p \in RepositoryConfigs :
         \/ p.ProjectName = StringValue("") /\ p.Hidden = BoolValue(FALSE)
         \/ /\ p.Description = StringValue(TextName[1])
            /\ p.ProjectName = StringValue(TextName[1])
            /\ p.Private = BoolValue(TRUE) /\ p.Hidden = BoolValue(TRUE)}
RaceUserRemotes == {w \in RemoteUsers \ {NoUser} : ~w.admin /\ w.keys \subseteq {KeyName[1]}}
RaceUserPlans ==
    {p \in UserConfigs :
         IsNull(p.PublicKeys) \/ p.PublicKeys.v \subseteq {KeyName[1], KeyName[2]}}

(* the state a caller recorded when it last read the resource *)
RaceSettingsRemotes == {w \in RemoteSettings : ~w.allow_keyless /\ w.anon_access = "read-only"}
RaceSettingsPlans ==
    {p \in ServerSettingsConfigs :
         /\ p.AllowKeyless \in {BoolUnknown, BoolValue(TRUE)}
         /\ p.AnonAccess \in {StringUnknown, StringValue("admin-access")}}
RaceKinds == {"repo", "user", "settings"}
Refreshed(k, w) ==
    IF k = "repo"
    THEN readRepoState(RepoName, RepositoryNull, ParseRepoInfo(RepoInfoOutput(w))).state.model
    ELSE IF k = "settings" THEN readSettingsState(ServerSettingsNull, w).state.model
    ELSE readUserState(UserName, [UserNull EXCEPT !.PublicKeys = SetValueFrom(<<>>)],
                       ParseUserInfo(UserInfoOutput(w))).state.model

Caller(plan, prior, cmds) ==
    [plan |-> plan, prior |-> prior, cmds |-> cmds, started |-> 0, returned |-> 0,
     result |-> "running", new |-> prior]

(* the handlers take no lock and make no check on other callers: nothing   *)
(* but its own previous command holds back a caller's next command         *)
CanSend_Locked(c) ==
    /\ callers[c].started = callers[c].returned
    /\ \A d \in Callers \ {c} : callers[d].started = 0 \/ callers[d].result # "running"
CanSend_Pipelined(c) == TRUE
(* faulty variant: after its first command a caller waits for ever *)
CanSend_Stalled(c) == callers[c].started = callers[c].returned /\ callers[c].started = 0
CanSend(c) == callers[c].started = callers[c].returned

Send(c) ==
    /\ kind \in RaceKinds /\ callers # <<>>
    /\ callers[c].result = "running"
    /\ callers[c].started < Len(callers[c].cmds)
    /\ CanSend(c)
    /\ callers' = [callers EXCEPT ![c].started = @ + 1]
    /\ UNCHANGED <<resourceVars, parserVars, sshVars>>

Complete(c) ==
    /\ kind \in RaceKinds /\ callers # <<>>
    /\ callers[c].result = "running"
    /\ callers[c].returned < callers[c].started
    /\ \E fail \in BOOLEAN :
          LET me == callers[c]
              cmd == me.cmds[me.returned + 1]
              one == Run(remote, cmd, fail)
              final == me.returned + 1 = Len(me.cmds)
              derived == IF kind = "repo"
                         THEN readRepoState(ValueString(me.plan.Name), me.plan,
                                            ParseRepoInfo(RepoInfoOutput(one.remote)))
                         ELSE IF kind = "settings" THEN readSettingsState(me.plan, one.remote)
                         ELSE readUserState(ValueString(me.plan.Username), me.plan,
                                            ParseUserInfo(UserInfoOutput(one.remote)))
          IN  /\ remote' = one.remote
              /\ log' = Append(log, [cmd |-> cmd, ok |-> one.ok, by |-> c])
              /\ callers' = [callers EXCEPT ![c] =
                    [me EXCEPT !.returned = @ + 1,
                               !.result = IF ~one.ok THEN "error"
                                          ELSE IF ~final THEN "running"
                                          ELSE IF derived.err THEN "error" ELSE "ok",
                               !.new = IF one.ok /\ final /\ ~derived.err
                                       THEN derived.state.model ELSE @]]
    /\ UNCHANGED <<kind, client, config, state, last, parserVars, sshVars>>

InitRace ==
    /\ kind \in RaceKinds
    /\ client = TRUE
    /\ config = <<>>
    /\ remote \in (IF kind = "repo" THEN RaceRepoRemotes
                   ELSE IF kind = "settings" THEN RaceSettingsRemotes ELSE RaceUserRemotes)
    /\ state = NoState(<<>>)
    /\ log = <<>>
    /\ last = [op |-> "none", plan |-> <<>>, result |-> "none", pre |-> remote,
               new |-> NoState(<<>>)]
    /\ output = <<>>
    /\ parse = NotParsed
    /\ ssh = NotCalled
    /\ conns = 0
    /\ LET prior == Refreshed(kind, remote)
       IN  callers \in
             [Callers ->
                IF kind = "repo"
                THEN {Caller([p EXCEPT !.ID = prior.ID], prior,
                             RepositoryUpdateCmds([p EXCEPT !.ID = prior.ID], prior)) :
                          p \in RaceRepoPlans}
                ELSE IF kind = "settings"
                THEN {Caller([p EXCEPT !.ID = prior.ID], prior,
                             applySettings([p EXCEPT !.ID = prior.ID]) \o readSettingsStateCmds) :
                          p \in RaceSettingsPlans}
                ELSE UNION {{Caller([p EXCEPT !.ID = prior.ID], prior,
                                    UserUpdateCmds([p EXCEPT !.ID = prior.ID], prior, removes, adds)) :
                                 removes \in RangeOrders(KeysToRemove(p, prior)),
                                 adds \in RangeOrders(KeysToAdd(p, prior))} :
                            p \in RaceUserPlans}]

NextRace == \E c \in Callers : Send(c) \/ Complete(c)
SpecRace == InitRace /\ [][NextRace]_vars
(* a command of caller c is on its way to the server: Complete(c) is       *)
(* enabled, and taking it changes callers                                  *)
InFlight(c) ==
    /\ kind \in RaceKinds /\ callers # <<>>
    /\ callers[c].result = "running"
    /\ callers[c].returned < callers[c].started
(* a caller that can send its next command does so, and every command sent *)
(* returns: weak fairness of Send(c) and of Complete(c), the latter        *)
(* written out as WF_vars(Complete(c)) with ENABLED <<Complete(c)>>_vars   *)
(* replaced by the equivalent InFlight(c)                                  *)
FairRace ==
    SpecRace /\ \A c \in Callers :
        /\ WF_vars(Send(c))
        /\ ([]<>(~InFlight(c)) \/ []<><<Complete(c)>>_vars)

----------------------------------------------------------------------------
(* Vocabulary of the properties.  While a response is pending, `state` is  *)
(* the prior recorded state, last.plan the desired state, last.pre the     *)
(* remote before the call, `remote` the remote after it, and `log` the     *)
(* commands the call sent.                                                 *)

Executed(k, op) == kind = k /\ last.op = op /\ last.result \in {"ok", "error"}
Desired == last.plan
Prior == state.model
Sent == [i \in DOMAIN log |-> log[i].cmd]
SentMutating == SelectSeq(Sent, IsMutating)
SentQueries == SelectSeq(Sent, IsQuery)
SentWithVerb(v) == SelectSeq(Sent, LAMBDA c : Verb(c) = v)
NoMutatingFailed == \A i \in DOMAIN log : IsMutating(log[i].cmd) => log[i].ok
IsPrefix(a, b) == Len(a) <= Len(b) /\ SubSeq(b, 1, Len(a)) = a
KeySetOf(x) == IF x.st = "known" THEN x.v ELSE {}
KeyOf(cmd) == Unquote(cmd[4])
Range(f) == {f[i] : i \in DOMAIN f}

RepositoryUnchanged ==
    /\ Desired.Description = Prior.Description
    /\ Desired.ProjectName = Prior.ProjectName
    /\ Desired.Private = Prior.Private
    /\ Desired.Hidden = Prior.Hidden
UserUnchanged ==
    /\ Desired.Admin = Prior.Admin
    /\ KeySetOf(Desired.PublicKeys) = KeySetOf(Prior.PublicKeys)

----------------------------------------------------------------------------
(* C1: a Repository or User Update whose desired state equals the prior    *)
(* recorded state (same description, project name, private, hidden; same   *)
(* admin flag and same public-key set) sends no mutating command: the only *)
(* command it sends is the verifying info query.                           *)
C1_IdempotentUpdate ==
    /\ (Executed("repo", "Update") /\ RepositoryUnchanged)
           => Sent = <<RepoInfo(RepoName)>>
    /\ (Executed("user", "Update") /\ UserUnchanged)
           => Sent = <<UserInfo(UserName)>>

C1_Witness ==
    /\ Executed("repo", "Update") /\ RepositoryUnchanged
    /\ Prior.Description = StringValue(TextName[1])
    /\ Prior.Private = BoolValue(TRUE)
    /\ last.result = "ok"
    /\ Len(log) = 1

----------------------------------------------------------------------------
(* C2 as stated: a Collaborator or ServerSettings Update whose desired     *)
(* state equals the prior recorded state (same access level; same          *)
(* allow-keyless and anon-access values) sends no mutating command.        *)
CollaboratorUnchanged == Desired.AccessLevel = Prior.AccessLevel
ServerSettingsUnchanged ==
    /\ Desired.AllowKeyless = Prior.AllowKeyless
    /\ Desired.AnonAccess = Prior.AnonAccess

----------------------------------------------------------------------------
(* C3: the User public-key diff.  For every desired and prior key set the  *)
(* keys removed are exactly prior \ desired and the keys added exactly     *)
(* desired \ prior, the two are disjoint, and applying the removes then    *)
(* the adds to a remote key set equal to prior yields exactly desired.     *)
RemovedKeys == {KeyOf(c) : c \in Range(SentWithVerb(<<"user", "remove-pubkey">>))}
AddedKeys == {KeyOf(c) : c \in Range(SentWithVerb(<<"user", "add-pubkey">>))}

C3_KeyDiff ==
    Executed("user", "Update") =>
        LET desired == KeySetOf(Desired.PublicKeys)
            prior == KeySetOf(Prior.PublicKeys)
        IN  /\ KeysToRemove(Desired, Prior) = prior \ desired
            /\ KeysToAdd(Desired, Prior) = desired \ prior
            /\ RemovedKeys \subseteq prior \ desired
            /\ AddedKeys \subseteq desired \ prior
            /\ RemovedKeys \cap AddedKeys = {}
            /\ NoMutatingFailed =>
                  /\ RemovedKeys = prior \ desired
                  /\ AddedKeys = desired \ prior
                  /\ last.pre.keys = prior => remote.keys = desired

C3_Witness ==
    /\ Executed("user", "Update")
    /\ last.result = "ok"
    /\ last.pre.keys = KeySetOf(Prior.PublicKeys)
    /\ RemovedKeys # {}
    /\ AddedKeys # {}
    /\ KeySetOf(Desired.PublicKeys) \cap KeySetOf(Prior.PublicKeys) # {}
    /\ remote.keys = KeySetOf(Desired.PublicKeys)

----------------------------------------------------------------------------
(* C4: in a User Update every `user remove-pubkey` is sent before every    *)
(* `user add-pubkey`; no key gets more than one command and a key in both  *)
(* the desired and the prior set gets none; an Update in which no command  *)
(* fails sends exactly one command per key of the symmetric difference     *)
(* ({A,B} -> {B,C} sends exactly remove A, then add C).                    *)
IsRemove(c) == Verb(c) = <<"user", "remove-pubkey">>
IsAdd(c) == Verb(c) = <<"user", "add-pubkey">>
KeyCommands == SelectSeq(Sent, LAMBDA c : IsRemove(c) \/ IsAdd(c))

C4_RemoveBeforeAdd ==
    Executed("user", "Update") =>
        LET desired == KeySetOf(Desired.PublicKeys)
            prior == KeySetOf(Prior.PublicKeys)
            A == KeyName[1]
            B == KeyName[2]
            C == KeyName[3]
        IN  /\ \A i, j \in DOMAIN Sent : (IsAdd(Sent[i]) /\ IsRemove(Sent[j])) => j < i
            /\ \A i, j \in DOMAIN KeyCommands :
                  KeyOf(KeyCommands[i]) = KeyOf(KeyCommands[j]) => i = j
            /\ \A i \in DOMAIN KeyCommands : KeyOf(KeyCommands[i]) \notin desired \cap prior
            /\ \A i \in DOMAIN KeyCommands :
                  /\ IsRemove(KeyCommands[i]) => KeyOf(KeyCommands[i]) \in prior \ desired
                  /\ IsAdd(KeyCommands[i]) => KeyOf(KeyCommands[i]) \in desired \ prior
            /\ NoMutatingFailed =>
                  Len(KeyCommands) = Cardinality((prior \ desired) \cup (desired \ prior))
            /\ (NoMutatingFailed /\ prior = {A, B} /\ desired = {B, C}) =>
                  KeyCommands = <<UserRemovePublicKey(UserName, A),
                                  UserAddPublicKey(UserName, C)>>

C4_Witness ==
    /\ Executed("user", "Update")
    /\ KeySetOf(Prior.PublicKeys) = {KeyName[1], KeyName[2]}
    /\ KeySetOf(Desired.PublicKeys) = {KeyName[2], KeyName[3]}
    /\ last.result = "ok"
    /\ Len(KeyCommands) = 2

----------------------------------------------------------------------------
(* C5: a Repository or User Update stops at its first failing command.     *)
(* Nothing is sent after a failed command: no later mutating command and   *)
(* no verifying query, and the response is an error.                       *)
(* Nothing is rolled back: every command sent carries a desired value, and *)
(* the remote after the call is the remote before it with exactly the      *)
(* commands that succeeded applied, so fields already changed stay changed *)
(* and the others are as they were.                                        *)
SucceededWithVerb(v) == \E i \in DOMAIN log : log[i].ok /\ Verb(log[i].cmd) = v
AppliedOr(v, desired, before) == IF SucceededWithVerb(v) THEN desired ELSE before
KeysOfSucceeded(v) ==
    {KeyOf(log[i].cmd) : i \in {j \in DOMAIN log : log[j].ok /\ Verb(log[j].cmd) = v}}

C5_StopsAtFirstFailure ==
    /\ (Executed("repo", "Update") \/ Executed("user", "Update")) =>
          /\ \A i \in DOMAIN log : ~log[i].ok => i = Len(log)
          /\ ~NoMutatingFailed =>
                /\ SentQueries = <<>>
                /\ last.result = "error"
    /\ Executed("repo", "Update") =>
          /\ \A i \in DOMAIN SentMutating :
                SentMutating[i] \in
                    {<<"repo", "description", RepoName, FmtQ(ValueString(Desired.Description))>>,
                     <<"repo", "project-name", RepoName, FmtQ(ValueString(Desired.ProjectName))>>,
                     <<"repo", "private", RepoName, FmtT(ValueBool(Desired.Private))>>,
                     <<"repo", "hidden", RepoName, FmtT(ValueBool(Desired.Hidden))>>}
          /\ remote.exists = last.pre.exists
          /\ remote.description = AppliedOr(<<"repo", "description">>,
                                            ValueString(Desired.Description), last.pre.description)
          /\ remote.project_name = AppliedOr(<<"repo", "project-name">>,
                                             ValueString(Desired.ProjectName), last.pre.project_name)
          /\ remote.private = AppliedOr(<<"repo", "private">>,
                                        ValueBool(Desired.Private), last.pre.private)
          /\ remote.hidden = AppliedOr(<<"repo", "hidden">>,
                                       ValueBool(Desired.Hidden), last.pre.hidden)
    /\ Executed("user", "Update") =>
          /\ \A i \in DOMAIN SentMutating :
                \/ SentMutating[i] = <<"user", "set-admin", UserName, FmtT(ValueBool(Desired.Admin))>>
                \/ IsRemove(SentMutating[i]) /\ KeyOf(SentMutating[i]) \notin KeySetOf(Desired.PublicKeys)
                \/ IsAdd(SentMutating[i]) /\ KeyOf(SentMutating[i]) \in KeySetOf(Desired.PublicKeys)
          /\ remote.exists = last.pre.exists
          /\ remote.admin = AppliedOr(<<"user", "set-admin">>, ValueBool(Desired.Admin), last.pre.admin)
          /\ remote.keys = (last.pre.keys \ KeysOfSucceeded(<<"user", "remove-pubkey">>))
                               \cup KeysOfSucceeded(<<"user", "add-pubkey">>)

C5_Witness ==
    /\ Executed("repo", "Update")
    /\ last.result = "error"
    /\ Len(log) = 2 /\ log[1].ok /\ ~log[2].ok
    /\ Verb(log[1].cmd) = <<"repo", "description">>
    /\ IsMutating(log[2].cmd)
    /\ Desired.Hidden # Prior.Hidden
    /\ remote.description # last.pre.description
    /\ remote.description = ValueString(Desired.Description)
    /\ remote.hidden = last.pre.hidden

----------------------------------------------------------------------------
(* C6: a Repository or User Update diffs against the recorded state only.  *)
(* It sends no query before its mutating commands, and the mutating        *)
(* commands it sends are determined by the desired and the prior recorded  *)
(* values alone: always among the commands that pair calls for, and all of *)
(* them when none fails, whatever the remote holds.                        *)
RepositoryWritesFor(desired, prior) ==
    {<<"repo", "description", RepoName, FmtQ(ValueString(desired.Description))>> :
         x \in {1} \cap (IF desired.Description # prior.Description THEN {1} ELSE {})}
    \cup {<<"repo", "project-name", RepoName, FmtQ(ValueString(desired.ProjectName))>> :
         x \in {1} \cap (IF desired.ProjectName # prior.ProjectName THEN {1} ELSE {})}
    \cup {<<"repo", "private", RepoName, FmtT(ValueBool(desired.Private))>> :
         x \in {1} \cap (IF desired.Private # prior.Private THEN {1} ELSE {})}
    \cup {<<"repo", "hidden", RepoName, FmtT(ValueBool(desired.Hidden))>> :
         x \in {1} \cap (IF desired.Hidden # prior.Hidden THEN {1} ELSE {})}
UserWritesFor(desired, prior) ==
    {<<"user", "set-admin", UserName, FmtT(ValueBool(desired.Admin))>> :
         x \in {1} \cap (IF desired.Admin # prior.Admin THEN {1} ELSE {})}
    \cup {<<"user", "remove-pubkey", UserName, FmtQ(k)>> :
         k \in KeySetOf(prior.PublicKeys) \ KeySetOf(desired.PublicKeys)}
    \cup {<<"user", "add-pubkey", UserName, FmtQ(k)>> :
         k \in KeySetOf(desired.PublicKeys) \ KeySetOf(prior.PublicKeys)}
WritesFor(desired, prior) ==
    IF kind = "repo" THEN RepositoryWritesFor(desired, prior) ELSE UserWritesFor(desired, prior)

C6_DiffsAgainstRecordedState ==
    (Executed("repo", "Update") \/ Executed("user", "Update")) =>
        /\ \A i, j \in DOMAIN Sent : (IsQuery(Sent[i]) /\ IsMutating(Sent[j])) => j < i
        /\ Range(SentMutating) \subseteq WritesFor(Desired, Prior)
        /\ NoMutatingFailed => Range(SentMutating) = WritesFor(Desired, Prior)

(* the remote already holds the desired description, the recorded state    *)
(* does not: the description is sent all the same                          *)
C6_Witness ==
    /\ Executed("repo", "Update")
    /\ last.result = "ok"
    /\ last.pre.description = ValueString(Desired.Description)
    /\ Prior.Description # Desired.Description
    /\ last.pre.description # ValueString(Prior.Description)
    /\ SentWithVerb(<<"repo", "description">>) # <<>>

----------------------------------------------------------------------------
(* C7: Repository Create sends, in this order, `repo create <name>` with   *)
(* the flag `-p` if and only if private is desired; then `repo hidden      *)
(* <name> true` if and only if hidden is desired; then exactly one `repo   *)
(* info <name>`; it stops at the first failure.  Private is never set by a *)
(* command of its own.  When Create succeeds the Private and Hidden it     *)
(* returns equal the desired values.                                       *)
C7_CreateSequence ==
    Executed("repo", "Create") =>
        LET private == ValueBool(Desired.Private)
            hidden == ValueBool(Desired.Hidden)
            follow == (IF hidden THEN <<(<<"repo", "hidden", RepoName, "true">>)>> ELSE <<>>)
                          \o <<(<<"repo", "info", RepoName>>)>>
        IN  /\ SubSeq(Sent[1], 1, 3) = <<"repo", "create", RepoName>>
            /\ HasFlag(Sent[1], "-p") <=> private
            /\ IsPrefix(Tail(Sent), follow)
            /\ \A i \in DOMAIN log : ~log[i].ok => i = Len(log)
            /\ (\A i \in DOMAIN log : log[i].ok) => Tail(Sent) = follow
            /\ SentWithVerb(<<"repo", "private">>) = <<>>
            /\ last.result = "ok" =>
                  /\ Tail(Sent) = follow
                  /\ last.new.present
                  /\ last.new.model.Private = BoolValue(private)
                  /\ last.new.model.Hidden = BoolValue(hidden)

C7_Witness ==
    /\ Executed("repo", "Create")
    /\ last.result = "ok"
    /\ Desired.Private = BoolValue(TRUE)
    /\ Desired.Hidden = BoolValue(TRUE)
    /\ Len(log) = 3
    /\ remote.private /\ remote.hidden

----------------------------------------------------------------------------
(* C8: a Repository Create with no description sends neither the flag     *)
(* `-d` nor any `repo description` command, and the repository it creates  *)
(* has the description the server gives it (empty); likewise with no       *)
(* project name for `-n` and `repo project-name`.                          *)
NotGiven(x) == x.st # "known" \/ x.v = ""

C8_CreateOmitsUnsetFields ==
    Executed("repo", "Create") =>
        /\ NotGiven(Desired.Description) =>
              /\ ~HasFlag(Sent[1], "-d")
              /\ SentWithVerb(<<"repo", "description">>) = <<>>
              /\ log[1].ok => remote.description = ""
              /\ ~log[1].ok => remote.description = last.pre.description
        /\ NotGiven(Desired.ProjectName) =>
              /\ ~HasFlag(Sent[1], "-n")
              /\ SentWithVerb(<<"repo", "project-name">>) = <<>>
              /\ log[1].ok => remote.project_name = ""
              /\ ~log[1].ok => remote.project_name = last.pre.project_name

C8_Witness ==
    /\ Executed("repo", "Create")
    /\ last.result = "ok"
    /\ Desired.Description = StringUnknown
    /\ Desired.ProjectName = StringValue(TextName[1])
    /\ HasFlag(Sent[1], "-n")
    /\ ~HasFlag(Sent[1], "-d")

----------------------------------------------------------------------------
(* C9: a Repository Update that clears a description whose prior value is  *)
(* not empty (the desired value is the explicit empty string) sends        *)
(* exactly one `repo description <name> ""`, carrying the empty string;    *)
(* likewise for the project name with `repo project-name <name> ""`, which *)
(* is sent unless the description command before it failed.                *)
C9_UpdateClearsWithEmptyString ==
    Executed("repo", "Update") =>
        /\ (ValueString(Prior.Description) # "" /\ Desired.Description = StringValue("")) =>
              /\ Sent[1] = <<"repo", "description", RepoName, "\"\"">>
              /\ Len(SentWithVerb(<<"repo", "description">>)) = 1
        /\ (ValueString(Prior.ProjectName) # "" /\ Desired.ProjectName = StringValue("")) =>
              LET sent == SentWithVerb(<<"repo", "project-name">>)
              IN  /\ Len(sent) <= 1
                  /\ \A i \in DOMAIN sent : sent[i] = <<"repo", "project-name", RepoName, "\"\"">>
                  /\ ~(\E i \in DOMAIN log : Verb(log[i].cmd) = <<"repo", "description">> /\ ~log[i].ok)
                        => Len(sent) = 1

C9_Witness ==
    /\ Executed("repo", "Update")
    /\ last.result = "ok"
    /\ Prior.Description = StringValue(TextName[1])
    /\ Desired.Description = StringValue("")
    /\ last.pre.description = TextName[1]
    /\ remote.description = ""
    /\ Sent[1] = <<"repo", "description", RepoName, "\"\"">>

----------------------------------------------------------------------------
(* C10: ServerSettings Delete sends no command, leaves the remote as it    *)
(* was and always succeeds, also when no client has been configured.       *)
C10_DeleteIsNoOp ==
    (kind = "settings" /\ last.op = "Delete") =>
        /\ log = <<>>
        /\ remote = last.pre
        /\ last.result = "ok"

C10_Witness ==
    /\ kind = "settings" /\ last.op = "Delete"
    /\ ~client
    /\ last.result = "ok"
    /\ log = <<>>

----------------------------------------------------------------------------
(* C11: a Collaborator Read whose `repo collab list <repository>` command  *)
(* succeeds fails (not found) if and only if the listing has no entry with *)
(* exactly the username; when it has one, the access level returned is the *)
(* listed level, or read-write when the listing line carries no level.     *)
C11_ReadNotFound ==
    (Executed("collab", "Read") /\ log[1].ok) =>
        /\ Sent = <<(<<"repo", "collab", "list", RepoName>>)>>
        /\ last.result = "error" <=> ~last.pre.listed
        /\ last.result = "ok" =>
              /\ last.new.model.Username = StringValue(UserName)
              /\ last.new.model.AccessLevel =
                     StringValue(IF last.pre.level = "" THEN "read-write" ELSE last.pre.level)

C11_Witness ==
    /\ Executed("collab", "Read") /\ log[1].ok
    /\ last.pre.listed /\ last.pre.level = ""
    /\ last.result = "ok"
    /\ last.new.model.AccessLevel = StringValue("read-write")

----------------------------------------------------------------------------
(* C12: Collaborator Import splits the identifier at its first "/" only:   *)
(* the repository is the text before it and the username everything after  *)
(* it, further "/" included.  An identifier without "/" is rejected with   *)
(* an error and no command is sent; an accepted one sends exactly `repo    *)
(* collab list <repository>`.                                              *)
C12_ImportSplitsAtFirstSlash ==
    /\ \A id \in ImportIDs :
          LET parts == SplitN2(id, <<SLASH>>)
          IN  IF Contains(id, <<SLASH>>)
              THEN /\ Len(parts) = 2
                   /\ ~Contains(parts[1], <<SLASH>>)
                   /\ parts[1] \o <<SLASH>> \o parts[2] = id
              ELSE parts = <<id>>
    /\ (kind = "collab" /\ last.op = "ImportState") =>
          IF last.plan = CollaboratorNull
          THEN /\ last.result = "error"
               /\ log = <<>>
               /\ remote = last.pre
          ELSE /\ ~Contains(<<last.plan.Repository.v>>, <<SLASH>>)
               /\ \E id \in ImportIDs :
                     /\ Contains(id, <<SLASH>>)
                     /\ Text(id) = last.plan.Repository.v \o "/" \o last.plan.Username.v
               /\ last.result \in {"ok", "error"} =>
                     Sent = <<(<<"repo", "collab", "list", last.plan.Repository.v>>)>>

C12_Witness ==
    /\ kind = "collab" /\ last.op = "ImportState"
    /\ last.plan.Repository = StringValue(RepoName)
    /\ last.plan.Username = StringValue(UserName \o "/x")
    /\ Len(log) = 1 /\ log[1].ok

----------------------------------------------------------------------------
(* C13: parser totality.  Whatever the text, ParseRepoInfo (ParseUserInfo) *)
(* returns either a record whose Repository (Username) is not empty and no *)
(* error, or an error and no record; never a record whose mandatory field  *)
(* is empty.                                                               *)
C13_ParserTotality ==
    /\ parse.fn = "ParseRepoInfo" =>
          IF parse.result.err THEN parse.result.info = Nil
          ELSE parse.result.info # Nil /\ parse.result.info.Repository # ""
    /\ parse.fn = "ParseUserInfo" =>
          IF parse.result.err THEN parse.result.info = Nil
          ELSE parse.result.info # Nil /\ parse.result.info.Username # ""

(* a text with a Username label without value, and a key: an error, no record *)
C13_Witness ==
    /\ parse.fn = "ParseUserInfo"
    /\ \E i, j \in DOMAIN output :
          /\ output[i] = <<"Username", COLON>>
          /\ output[j] = KeyLine(KeyName[1])
    /\ parse.result.err
    /\ parse.result.info = Nil

----------------------------------------------------------------------------
(* C14: repository-info round trip.  Parsing a response that has one       *)
(* `label: value` line for each of Project Name, Repository, Description,  *)
(* Private, Hidden, Mirror, Owner, in either order, gives back exactly     *)
(* those values, and a boolean field is true if and only if its value is   *)
(* the token `true` (not for `True`, `yes`, `false`).                      *)
HasLine(text, line) == \E i \in DOMAIN text : text[i] = line
C14_RepoInfoRoundTrip ==
    (parse.fn = "ParseRepoInfo" /\ Len(output) = 7) =>
        LET info == parse.result.info
        IN  /\ ~parse.result.err
            /\ \E v \in ValueTexts : HasLine(output, Line(<<"Project", SP, "Name">>, v))
            /\ \A v \in ValueTexts :
                  HasLine(output, Line(<<"Project", SP, "Name">>, v)) => info.ProjectName = Text(v)
            /\ HasLine(output, Line(<<"Repository">>, <<RepoName>>))
            /\ info.Repository = RepoName
            /\ \E v \in ValueTexts : HasLine(output, Line(<<"Description">>, v))
            /\ \A v \in ValueTexts :
                  HasLine(output, Line(<<"Description">>, v)) => info.Description = Text(v)
            /\ \E v \in BoolTokens : HasLine(output, Line(<<"Private">>, <<v>>))
            /\ \A v \in BoolTokens :
                  HasLine(output, Line(<<"Private">>, <<v>>)) => (info.Private <=> v = "true")
            /\ \E v \in BoolTokens : HasLine(output, Line(<<"Hidden">>, <<v>>))
            /\ \A v \in BoolTokens :
                  HasLine(output, Line(<<"Hidden">>, <<v>>)) => (info.Hidden <=> v = "true")
            /\ \E v \in BoolTokens : HasLine(output, Line(<<"Mirror">>, <<v>>))
            /\ \A v \in BoolTokens :
                  HasLine(output, Line(<<"Mirror">>, <<v>>)) => (info.Mirror <=> v = "true")
            /\ HasLine(output, Line(<<"Owner">>, <<"admin">>))
            /\ info.Owner = "admin"

C14_Witness ==
    /\ parse.fn = "ParseRepoInfo"
    /\ output = RepoResponse(<<"a", COLON, SP, "b">>, <<"two", SP, "words">>,
                             "True", "true", "yes")
    /\ ~parse.result.err
    /\ parse.result.info.ProjectName = "a: b"
    /\ parse.result.info.Description = "two words"
    /\ ~parse.result.info.Private
    /\ parse.result.info.Hidden
    /\ ~parse.result.info.Mirror

----------------------------------------------------------------------------
(* C15: ParseCollabList returns one entry per line that is not blank, in   *)
(* the order of the lines: the username is the line's first token, the     *)
(* access level its second token, or the empty string when there is none;  *)
(* a text that is empty or all white space gives the empty list.           *)
CollabEntryOf(line) ==
    CASE line = <<UserName, SP, "read-write">> ->
             <<[Username |-> UserName, AccessLevel |-> "read-write"]>>
      [] line = <<"bob", SP, "read-only">> ->
             <<[Username |-> "bob", AccessLevel |-> "read-only"]>>
      [] line = <<UserName>> ->
             <<[Username |-> UserName, AccessLevel |-> ""]>>
      [] line = <<SP, SP, "carol", SP, SP, "admin-access", SP>> ->
             <<[Username |-> "carol", AccessLevel |-> "admin-access"]>>
      [] line = <<TAB, "dave", TAB, "no-access", SP, "extra">> ->
             <<[Username |-> "dave", AccessLevel |-> "no-access"]>>
      [] line \in {<<SP, TAB>>, <<>>} -> <<>>
RECURSIVE CollabEntriesOf(_)
CollabEntriesOf(text) ==
    IF text = <<>> THEN <<>> ELSE CollabEntryOf(Head(text)) \o CollabEntriesOf(Tail(text))

C15_CollabListEntries ==
    parse.fn = "ParseCollabList" => parse.result = CollabEntriesOf(output)

C15_Witness ==
    /\ parse.fn = "ParseCollabList"
    /\ output = << <<SP, TAB>>, <<UserName>>, <<SP, SP, "carol", SP, SP, "admin-access", SP>> >>
    /\ parse.result = <<[Username |-> UserName, AccessLevel |-> ""],
                        [Username |-> "carol", AccessLevel |-> "admin-access"]>>

----------------------------------------------------------------------------
(* C16 as stated: the public keys ParseUserInfo returns are exactly the    *)
(* indented lines that are not blank and follow the `Public keys` label,   *)
(* in order, up to the first following line of the `label: value` pattern; *)
(* a line that is not indented is never returned as a key.                 *)
IsPublicKeysLabel(line) == TrimSpace(line) = <<"Public", SP, "keys", COLON>>
IsLabelValue(line) == Contains(line, <<COLON, SP>>)
IsIndented(line) == HasPrefix(line, <<SP, SP>>) \/ HasPrefix(line, <<TAB>>)
InKeySection(text, i) ==
    \E j \in 1..(i - 1) :
        /\ IsPublicKeysLabel(text[j])
        /\ \A k \in (j + 1)..i : ~IsLabelValue(text[k]) /\ ~IsPublicKeysLabel(text[k])
RECURSIVE KeyLinesFrom(_, _)
KeyLinesFrom(text, i) ==
    IF i > Len(text) THEN <<>>
    ELSE (IF InKeySection(text, i) /\ IsIndented(text[i]) /\ TrimSpace(text[i]) # <<>>
          THEN <<Text(TrimSpace(text[i]))>> ELSE <<>>)
             \o KeyLinesFrom(text, i + 1)

C16_KeysAreIndentedLines ==
    (parse.fn = "ParseUserInfo" /\ ~parse.result.err) =>
        parse.result.info.PublicKeys = KeyLinesFrom(output, 1)

----------------------------------------------------------------------------
(* C17 as stated: a line `X: v` or `X:` with a label the parsers do not    *)
(* map, put in at any position of a text, leaves the result of             *)
(* ParseRepoInfo and of ParseUserInfo as it was.                           *)
InsertAt(text, p, line) == SubSeq(text, 1, p) \o <<line>> \o SubSeq(text, p + 1, Len(text))
UnknownLabelLines == {<<"X", COLON, SP, "v">>, <<"X", COLON>>}

C17_UnknownLabelsIgnored ==
    /\ parse.fn = "ParseRepoInfo" =>
          \A p \in 0..Len(output), x \in UnknownLabelLines :
              ParseRepoInfo(InsertAt(output, p, x)) = parse.result
    /\ parse.fn = "ParseUserInfo" =>
          \A p \in 0..Len(output), x \in UnknownLabelLines :
              ParseUserInfo(InsertAt(output, p, x)) = parse.result

----------------------------------------------------------------------------
(* what a call of the client touched *)
Cfg == config.cfg
Env == config.env
Touched(ev, arg) == \E i \in DOMAIN ssh.events : ssh.events[i].ev = ev /\ ssh.events[i].arg = arg
AgentDialled == \E i \in DOMAIN ssh.events : ssh.events[i].ev = "net.Dial"
Offered ==
    IF \E i \in DOMAIN ssh.events : ssh.events[i].ev \in {"ssh.Dial", "ssh.Dial failed"}
    THEN ssh.events[1].arg ELSE <<>>
ContentSigner == [method |-> "PublicKeys", signer |-> [key |-> Cfg.PrivateKey]]
FileSigner == [method |-> "PublicKeys", signer |-> [key |-> ReadFile(Cfg.PrivateKeyPath).data]]
AgentMethod ==
    [method |-> "PublicKeysCallback",
     only |-> IF Cfg.IdentityFile = "" THEN "" ELSE ReadFile(Cfg.IdentityFile).data]
AgentReachable == Cfg.UseAgent /\ Env.SSH_AUTH_SOCK # "" /\ Env.listening

----------------------------------------------------------------------------
(* C19: NewClient returns an error and no client when no method resolves   *)
(* (no key content, no key file, agent off or unreachable); it also        *)
(* returns an error and no client, without turning to the agent, when the  *)
(* key content it was given does not parse or the key file it consults is  *)
(* missing or does not parse.                                              *)
NoMethod == Cfg.PrivateKey = "" /\ Cfg.PrivateKeyPath = "" /\ ~AgentReachable
KeyBroken ==
    \/ Cfg.PrivateKey # "" /\ Cfg.PrivateKey \notin PEMs
    \/ /\ Cfg.PrivateKey = "" /\ Cfg.PrivateKeyPath # ""
       /\ (Cfg.PrivateKeyPath \notin DOMAIN Files \/ Files[Cfg.PrivateKeyPath] \notin PEMs)

C19_ConstructionFails ==
    ssh.op = "NewClient" =>
        /\ NoMethod => (ssh.err = "no authentication method available" /\ ssh.client = Nil)
        /\ KeyBroken => (ssh.err # "" /\ ssh.client = Nil /\ ~AgentDialled)
        /\ ssh.err # "" <=> ssh.client = Nil

C19_Witness ==
    /\ ssh.op = "NewClient" /\ KeyBroken /\ AgentReachable
    /\ Cfg.PrivateKey = "" /\ Cfg.PrivateKeyPath = "id_garbage"
    /\ ssh.client = Nil

----------------------------------------------------------------------------
(* C20: every Run dials exactly once, runs at most one command, uses only  *)
(* the connection it dialled, which no earlier call had, and has closed    *)
(* it (after its session) by the time it returns, whatever the outcome;    *)
(* between calls no command connection is open.                            *)
DialAttempts == CountEvents(ssh.events, "ssh.Dial") + CountEvents(ssh.events, "ssh.Dial failed")

C20_OwnConnection ==
    /\ kind = "client" => conns = 0
    /\ ssh.op = "Run" =>
          LET ev == ssh.events
              n == Len(ev)
          IN  /\ DialAttempts = 1
              /\ ev[1].ev \in {"ssh.Dial", "ssh.Dial failed"}
              /\ CountEvents(ev, "session.Run") <= 1
              /\ \A i \in 1..n : ev[i].conn = ev[1].conn
              /\ ev[1].ev = "ssh.Dial" =>
                    /\ ev[1].conn = ssh.opened
                    /\ ev[n].ev = "conn.Close"
                    /\ CountEvents(ev, "conn.Close") = 1
                    /\ CountEvents(ev, "NewSession") = 1 =>
                          (n >= 2 /\ ev[n - 1].ev = "session.Close")
              /\ ev[1].ev = "ssh.Dial failed" => (n = 1 /\ ev[1].conn = ssh.opened + 1)

C20_Witness ==
    /\ ssh.op = "Run" /\ ssh.runs = 2 /\ ssh.opened = 2 /\ ssh.err = "session"
    /\ conns = 0

----------------------------------------------------------------------------
(* C21: every failure is terminal and unretried.  In every operation of    *)
(* every kind no command is sent twice; a command that fails is the last   *)
(* one sent, the operation reports an error and the state it leaves to be  *)
(* recorded is the prior one; an operation that reports success had every  *)
(* command it sent succeed.                                                *)
Operations == {"Create", "Read", "Update", "Delete", "ImportState"}
OperationDone == kind \in Kinds /\ last.op \in Operations /\ last.result \in {"ok", "error"}

C21_FailureIsTerminal ==
    OperationDone =>
        /\ \A i, j \in DOMAIN log : log[i].cmd = log[j].cmd => i = j
        /\ \A i \in DOMAIN log :
              ~log[i].ok => /\ i = Len(log)
                            /\ last.result = "error"
                            /\ last.new = state
        /\ last.result = "ok" => \A i \in DOMAIN log : log[i].ok

C21_Witness ==
    /\ OperationDone /\ kind = "settings" /\ last.op = "Create"
    /\ Len(log) = 3 /\ log[1].ok /\ log[2].ok /\ ~log[3].ok
    /\ IsQuery(log[3].cmd)
    /\ last.result = "error"
    /\ last.new = state /\ ~state.present
    /\ remote # last.pre

----------------------------------------------------------------------------
(* C22: two Updates of the same repository or user by different callers    *)
(* are not serialized.  A caller whose previous command has returned can   *)
(* always send its next one, whatever the other caller is doing; the       *)
(* remote value of every field is the one written by the last command for  *)
(* that field the server ran, whoever sent it (the value before the        *)
(* Updates if there was none); nothing keeps the remote from ending up     *)
(* different from what either caller asked for (the witness).              *)
Racing == callers # <<>>
LastOf(hits) == IF hits = {} THEN 0 ELSE CHOOSE i \in hits : \A j \in hits : j <= i
OkWith(v) == {i \in DOMAIN log : log[i].ok /\ Verb(log[i].cmd) = v}
OkOnKey(k) ==
    {i \in DOMAIN log :
         /\ log[i].ok /\ Len(log[i].cmd) = 4 /\ log[i].cmd[4] = FmtQ(k)
         /\ Verb(log[i].cmd) \in {<<"user", "add-pubkey">>, <<"user", "remove-pubkey">>}}
LastWritten(v, before) ==
    IF OkWith(v) = {} THEN before ELSE log[LastOf(OkWith(v))].cmd[4]
RaceDone == Racing /\ \A c \in Callers : callers[c].result = "ok"
RepoMatches(plan) ==
    /\ remote.description = ValueString(plan.Description)
    /\ remote.project_name = ValueString(plan.ProjectName)
    /\ remote.private = ValueBool(plan.Private)
    /\ remote.hidden = ValueBool(plan.Hidden)

C22_NotSerialized ==
    Racing =>
        /\ \A c \in Callers :
              (/\ callers[c].result = "running"
               /\ callers[c].started = callers[c].returned
               /\ callers[c].started < Len(callers[c].cmds)) => ENABLED Send(c)
        /\ kind = "repo" =>
              /\ FmtQ(remote.description) =
                     LastWritten(<<"repo", "description">>, FmtQ(last.pre.description))
              /\ FmtT(remote.private) =
                     LastWritten(<<"repo", "private">>, FmtT(last.pre.private))
        /\ kind = "user" =>
              /\ FmtT(remote.admin) = LastWritten(<<"user", "set-admin">>, FmtT(last.pre.admin))
              /\ \A k \in Keys :
                    LET i == LastOf(OkOnKey(k))
                    IN  k \in remote.keys <=>
                            IF i = 0 THEN k \in last.pre.keys
                            ELSE Verb(log[i].cmd) = <<"user", "add-pubkey">>

(* both callers succeeded, their commands interleaved, and the repository  *)
(* is what neither of them asked for                                       *)
C22_Witness ==
    /\ RaceDone /\ kind = "repo"
    /\ Len(log) >= 3 /\ log[1].by = 1 /\ log[2].by = 2 /\ log[3].by = 1
    /\ ~RepoMatches(callers[1].plan)
    /\ ~RepoMatches(callers[2].plan)

----------------------------------------------------------------------------
(* C23: convergence without drift.  When a Repository or User Update       *)
(* starts with the remote equal to the prior recorded state and every      *)
(* command succeeds, then at its return the remote holds the desired value *)
(* of every managed field (description, project name, private, hidden;     *)
(* admin, public-key set) and so does the returned state.  A field the     *)
(* plan leaves unknown has no desired value.                               *)
Known(x) == ~IsNull(x) /\ ~IsUnknown(x)
Returned == last.new.model
RepositoryNoDrift ==
    /\ last.pre # NoRepo
    /\ Prior.Description = StringValue(last.pre.description)
    /\ Prior.ProjectName = StringValue(last.pre.project_name)
    /\ Prior.Private = BoolValue(last.pre.private)
    /\ Prior.Hidden = BoolValue(last.pre.hidden)
UserNoDrift ==
    /\ last.pre # NoUser
    /\ Prior.Admin = BoolValue(last.pre.admin)
    /\ KeySetOf(Prior.PublicKeys) = last.pre.keys

C23_ConvergesWithoutDrift ==
    /\ (Executed("repo", "Update") /\ RepositoryNoDrift /\ \A i \in DOMAIN log : log[i].ok) =>
          /\ last.result = "ok"
          /\ Known(Desired.Description) =>
                /\ remote.description = ValueString(Desired.Description)
                /\ Returned.Description = Desired.Description
          /\ Known(Desired.ProjectName) =>
                /\ remote.project_name = ValueString(Desired.ProjectName)
                /\ Returned.ProjectName = Desired.ProjectName
          /\ remote.private = ValueBool(Desired.Private)
          /\ Returned.Private = Desired.Private
          /\ remote.hidden = ValueBool(Desired.Hidden)
          /\ Returned.Hidden = Desired.Hidden
    /\ (Executed("user", "Update") /\ UserNoDrift /\ \A i \in DOMAIN log : log[i].ok) =>
          /\ last.result = "ok"
          /\ remote.admin = ValueBool(Desired.Admin)
          /\ Returned.Admin = Desired.Admin
          /\ remote.keys = KeySetOf(Desired.PublicKeys)
          /\ KeySetOf(Returned.PublicKeys) = KeySetOf(Desired.PublicKeys)
          /\ IsNull(Returned.PublicKeys) <=> IsNull(Desired.PublicKeys)

C23_Witness ==
    /\ Executed("repo", "Update") /\ RepositoryNoDrift /\ last.result = "ok"
    /\ Len(log) = 5
    /\ Known(Desired.Description) /\ Known(Desired.ProjectName)
    /\ remote.description = ValueString(Desired.Description)
    /\ remote.hidden = ValueBool(Desired.Hidden)
    /\ remote.hidden # last.pre.hidden

----------------------------------------------------------------------------
(* C24: the state a successful Create, Read, Update or Import returns is   *)
(* re-derived from the remote.  Every managed field other than the         *)
(* identity is the value parsed from the answer to the operation's final   *)
(* query (an access level the answer leaves out being read-write), whether *)
(* or not the desired or the prior state say the same.                     *)
Derives == last.op \in {"Create", "Read", "Update", "ImportState"} /\ last.result = "ok"
FinalRepoInfo == ParseRepoInfo(RepoInfoOutput(remote)).info
FinalUserInfo == ParseUserInfo(UserInfoOutput(remote)).info
FinalCollabs == ParseCollabList(CollabListOutput(remote))
FinalLevel ==
    LET c == FinalCollabs[CHOOSE i \in DOMAIN FinalCollabs : FinalCollabs[i].Username = UserName]
    IN  IF c.AccessLevel = "" THEN "read-write" ELSE c.AccessLevel

C24_StateIsRederived ==
    /\ (kind = "repo" /\ Derives) =>
          /\ log[Len(log)].cmd = RepoInfo(RepoName)
          /\ Returned.Description = StringValue(FinalRepoInfo.Description)
          /\ Returned.ProjectName = StringValue(FinalRepoInfo.ProjectName)
          /\ Returned.Private = BoolValue(FinalRepoInfo.Private)
          /\ Returned.Hidden = BoolValue(FinalRepoInfo.Hidden)
    /\ (kind = "user" /\ Derives) =>
          /\ log[Len(log)].cmd = UserInfo(UserName)
          /\ Returned.Admin = BoolValue(FinalUserInfo.Admin)
          /\ KeySetOf(Returned.PublicKeys) = Range(FinalUserInfo.PublicKeys)
    /\ (kind = "collab" /\ Derives) =>
          /\ log[Len(log)].cmd = CollabList(RepoName)
          /\ Returned.AccessLevel = StringValue(FinalLevel)
    /\ (kind = "settings" /\ Derives) =>
          /\ log[Len(log)].cmd = SettingsGetAnonAccess
          /\ Returned.AllowKeyless = BoolValue(remote.allow_keyless)
          /\ Returned.AnonAccess = StringValue(remote.anon_access)

(* a Read after a partly failed Update: the description returned is the    *)
(* one the remote holds, not the recorded one                              *)
C24_Witness ==
    /\ kind = "repo" /\ last.op = "Read" /\ last.result = "ok"
    /\ Returned.Description # Prior.Description
    /\ Returned.Description = StringValue(remote.description)
    /\ Returned.Private = Prior.Private

----------------------------------------------------------------------------
(* C25 as stated: a Repository Update sends one command per changed field  *)
(* and none for an unchanged one.  A `repo description` (`repo             *)
(* project-name`) command is sent only when the desired value differs from *)
(* the prior recorded one; when the caller supplies no value for the field *)
(* (desired null or unknown) and the prior recorded value is a string, no  *)
(* command is sent for it and the remote value stays as it was.            *)
C25_OneCommandPerChangedField ==
    Executed("repo", "Update") =>
        /\ \A v \in {<<"repo", "description">>, <<"repo", "project-name">>,
                     <<"repo", "private">>, <<"repo", "hidden">>} :
              Len(SentWithVerb(v)) <= 1
        /\ SentWithVerb(<<"repo", "description">>) # <<>> =>
              (Known(Desired.Description) /\ Desired.Description # Prior.Description)
        /\ SentWithVerb(<<"repo", "project-name">>) # <<>> =>
              (Known(Desired.ProjectName) /\ Desired.ProjectName # Prior.ProjectName)
        /\ (~Known(Desired.Description) /\ Known(Prior.Description)) =>
              /\ SentWithVerb(<<"repo", "description">>) = <<>>
              /\ remote.description = last.pre.description
        /\ (~Known(Desired.ProjectName) /\ Known(Prior.ProjectName)) =>
              /\ SentWithVerb(<<"repo", "project-name">>) = <<>>
              /\ remote.project_name = last.pre.project_name

----------------------------------------------------------------------------
(* C26 as stated: identity is never changed in place and id mirrors it.    *)
(* Every command of a Repository or User operation names the same          *)
(* repository or user and none renames it; after every successful Create,  *)
(* Read, Update or Import the recorded id equals the recorded name         *)
(* (username), whatever the response of the remote contains.               *)
Target(cmd) == cmd[3]
C26_IdMirrorsIdentity ==
    /\ (kind \in {"repo", "user"} /\ OperationDone) =>
          /\ \A i \in DOMAIN log :
                /\ Target(log[i].cmd) = (IF kind = "repo" THEN RepoName ELSE UserName)
                /\ Verb(log[i].cmd) \notin {<<"repo", "rename">>, <<"user", "set-username">>}
          /\ (kind = "repo" /\ Derives) => Returned.ID = Returned.Name
          /\ (kind = "user" /\ Derives) => Returned.ID = Returned.Username
    /\ (kind = "parser" /\ last.op = "readRepoState" /\ last.result = "ok") =>
          last.new.model.ID = last.new.model.Name

----------------------------------------------------------------------------
(* C27: within one operation the commands run strictly one at a time in a  *)
(* fixed order with the verifying query last.  Repository Update issues    *)
(* description, project-name, private, hidden; User Update issues          *)
(* set-admin, the key removals, the key additions; the info query is       *)
(* issued only after every mutating command has returned successfully, and *)
(* no command starts before the previous one has returned.                 *)
Rank(cmd) ==
    CASE Verb(cmd) = <<"repo", "description">>  -> 1
      [] Verb(cmd) = <<"repo", "project-name">> -> 2
      [] Verb(cmd) = <<"repo", "private">>      -> 3
      [] Verb(cmd) = <<"repo", "hidden">>       -> 4
      [] Verb(cmd) = <<"repo", "info">>         -> 5
      [] Verb(cmd) = <<"user", "set-admin">>    -> 1
      [] Verb(cmd) = <<"user", "remove-pubkey">> -> 2
      [] Verb(cmd) = <<"user", "add-pubkey">>   -> 3
      [] Verb(cmd) = <<"user", "info">>         -> 4
      [] OTHER -> 0
ReturnedBy(c) == SelectSeq(log, LAMBDA e : e.by = c)
InOrder(c) ==
    LET me == callers[c]
    IN  \A i, j \in 1..me.started :
            i < j => /\ Rank(me.cmds[i]) > 0
                     /\ Rank(me.cmds[i]) <= Rank(me.cmds[j])
                     /\ (Rank(me.cmds[i]) = Rank(me.cmds[j]) =>
                            IsRemove(me.cmds[i]) \/ IsAdd(me.cmds[i]))
QueryLast(c) ==
    LET me == callers[c]
    IN  \A i \in 1..me.started :
            IsQuery(me.cmds[i]) =>
                /\ i = Len(me.cmds)
                /\ me.returned >= i - 1
                /\ \A j \in 1..(i - 1) :
                      IsMutating(me.cmds[j]) /\ ReturnedBy(c)[j].ok
OneAtATime(c) ==
    LET me == callers[c]
    IN  /\ me.started - me.returned \in {0, 1}
        /\ Len(ReturnedBy(c)) = me.returned
        /\ \A i \in 1..me.returned : ReturnedBy(c)[i].cmd = me.cmds[i]
        /\ \A i \in 1..(me.returned - 1) : ReturnedBy(c)[i].ok
C27_OneAtATimeInOrder ==
    (Racing /\ kind \in {"repo", "user"}) => \A c \in Callers : InOrder(c) /\ QueryLast(c) /\ OneAtATime(c)
C27_Witness ==
    /\ Racing /\ kind = "repo"
    /\ \E c \in Callers :
          /\ Len(callers[c].cmds) = 5
          /\ callers[c].started = Len(callers[c].cmds)
          /\ callers[c].returned = callers[c].started - 1
          /\ \E d \in Callers \ {c} : callers[d].started = callers[d].returned + 1

----------------------------------------------------------------------------
(* C28: Repository Create is not atomic.  When `repo create` has succeeded *)
(* and the follow-up `repo hidden <name> true` or the verifying            *)
(* `repo info` fails, Create reports an error and records no state, yet    *)
(* sends no `repo delete`: the repository stays on the remote, unrecorded. *)
CreatedThenFailed ==
    /\ Executed("repo", "Create")
    /\ Len(log) >= 2
    /\ Verb(log[1].cmd) = <<"repo", "create">> /\ log[1].ok
    /\ \E i \in DOMAIN log : ~log[i].ok
C28_CreateLeavesOrphan ==
    CreatedThenFailed =>
        /\ last.result = "error"
        /\ ~last.new.present /\ ~state.present
        /\ SentWithVerb(<<"repo", "delete">>) = <<>>
        /\ remote.exists /\ ~last.pre.exists
C28_Witness ==
    /\ CreatedThenFailed
    /\ Verb(log[2].cmd) = <<"repo", "hidden">> /\ ~log[2].ok
    /\ remote.exists /\ ~state.present

----------------------------------------------------------------------------
(* C29: the recorded public keys of a User keep the null/empty             *)
(* distinction.  When the remote reports no keys the recorded set stays    *)
(* null if it was null before the read (Import included) and becomes the   *)
(* empty set if it was not; when the remote reports at least one key the   *)
(* recorded set is exactly the reported keys, handed over in sorted order, *)
(* whatever the previous value was.                                        *)
UserStateRead ==
    /\ kind = "user" /\ last.result = "ok"
    /\ last.op \in {"Create", "Read", "Update", "ImportState"}
ReportedKeys == ParseUserInfo(UserInfoOutput(remote)).info.PublicKeys
BeforeRead == last.plan.PublicKeys
IsSortedKeys(s) == \A i, j \in DOMAIN s : i < j => KeyIndex(s[i]) <= KeyIndex(s[j])
----------------------------------------------------------------------------
(* C30: every operation issues a bounded number of commands -- Repository  *)
(* Update at most 4 mutating commands and 1 query, User Update at most     *)
(* 1 + |prior \ desired| + |desired \ prior| mutating commands and 1       *)
(* query, ServerSettings Create/Update at most 2 mutating and 2 query      *)
(* commands -- and, provided each issued command eventually returns, the   *)
(* operation eventually returns success or an error.                       *)
Issued(c) == SubSeq(callers[c].cmds, 1, callers[c].started)
IssuedMutating(c) == Len(SelectSeq(Issued(c), IsMutating))
IssuedQueries(c) == Len(SelectSeq(Issued(c), IsQuery))
KeysOrNone(x) == IF IsNull(x) THEN {} ELSE x.v
CommandsBounded(c) ==
    LET me == callers[c]
        prior == KeysOrNone(me.prior.PublicKeys)
        desired == KeysOrNone(me.plan.PublicKeys)
    IN  CASE kind = "repo" -> IssuedMutating(c) <= 4 /\ IssuedQueries(c) <= 1
          [] kind = "user" ->
                /\ IssuedMutating(c) <= 1 + Cardinality(prior \ desired)
                                          + Cardinality(desired \ prior)
                /\ IssuedQueries(c) <= 1
          [] kind = "settings" -> IssuedMutating(c) <= 2 /\ IssuedQueries(c) <= 2
HasReturned(c) == callers[c].result \in {"ok", "error"}
C30_BoundedAndTerminates ==
    /\ [](Racing => \A c \in Callers : CommandsBounded(c))
    /\ \A c \in Callers : <>[](Racing => HasReturned(c))
(* a ServerSettings operation that returned success after two mutating and *)
(* two query commands, next to one that returned an error                  *)
C30_Witness ==
    /\ Racing /\ kind = "settings"
    /\ \E c \in Callers :
          /\ callers[c].result = "ok"
          /\ IssuedMutating(c) = 2 /\ IssuedQueries(c) = 2
          /\ \E d \in Callers \ {c} : callers[d].result = "error"

====
